---- MODULE Spec2Model ----
(***************************************************************************)
(* A model of notifylm: the in-memory Store (ring buffer of processed      *)
(* messages, statistics, capped notification log, SSE subscribers) and the *)
(* pipeline of cmd/notifylm (listeners -> messageChan -> processMessages   *)
(* -> handleMessage -> Store).                                             *)
(*                                                                         *)
(* Go pointers are modelled as sequences of length at most one: Nil is a   *)
(* nil pointer, Ptr(v) points at v.  time.Now() is a logical clock that    *)
(* advances by one on every call.                                          *)
(***************************************************************************)
EXTENDS Integers, Sequences, FiniteSets, TLC

VARIABLES
    capacity,       \* Store.capacity
    messages,       \* Store.messages, the ring buffer, indexed 0..capacity-1
    writeIdx,       \* Store.writeIdx
    count,          \* Store.count
    listeners,      \* Store.listeners, keyed by listener name
    notifications,  \* Store.notifications
    stats,          \* Store.stats
    subscribers,    \* Store.subscribers, a set of channels
    chans,          \* every channel made by Subscribe: tokens buffered, closed or not
    proc,           \* the goroutine of processMessages: where it is, its locals
    clock,          \* time.Now()
    inserts,        \* history: every record passed to AddProcessedMessage, in order
    appends,        \* history: every entry passed to AddNotification, in order
    ctx,            \* main's ctx: "live" or "done" (cancel was called)
    messageChan,    \* main's messageChan: the buffered Events, closed or not
    mainPc,         \* main: where it is after starting the goroutines
    lst,            \* the configured listeners: Start, handler goroutine, connection
    calCfg,         \* whether main holds a calendar.EventCreator (cal != nil)
    nextID,         \* the next Event a listener will create
    panicked,       \* a goroutine panicked: the process is gone
    hist,           \* history of the run: dequeues, external calls, cancellation
    lastBroadcast,  \* history: who the latest notifySubscribers reached and skipped
    mu,             \* Store.mu: held by a writer, or by a number of readers
    ssemu,          \* Store.ssemu: held by a writer, or by a number of readers
    rd,             \* the goroutines that read the Store: where each one is
    heap,           \* the time.Time cells written through a pointer since allocated
    snap,           \* what a caller of GetListenerStatuses and GetStats holds
    sse             \* the handleSSE goroutines: where each one is, the channel it holds

ringVars == <<capacity, messages, writeIdx, count, stats>>
subVars == <<subscribers, chans, lastBroadcast>>
pipeVars == <<ctx, messageChan, mainPc, lst, calCfg, nextID, panicked, hist>>
lockVars == <<mu, ssemu, rd>>
callerVars == <<heap, snap, sse>>
vars == <<capacity, messages, writeIdx, count, listeners, notifications,
          stats, subscribers, chans, proc, clock, inserts, appends,
          ctx, messageChan, mainPc, lst, calCfg, nextID, panicked, hist,
          lastBroadcast, mu, ssemu, rd, heap, snap, sse>>

----------------------------------------------------------------------------
(* Bounds of the model *)

MaxCapacity == 3        \* ring capacities 1..MaxCapacity are explored
MaxInserts == 4         \* inserts explored by SpecStore
MaxStatCapacity == 1    \* ring capacities explored by SpecStats
MaxStatInserts == 2     \* inserts explored by SpecStats
MaxAppends == 102       \* appends explored by SpecLog
MaxSubs == 2            \* channels ever made by Subscribe
MaxSSEInserts == 17     \* inserts explored by SpecSSE

(* Program constants *)

DefaultCapacity == 500
maxNotifications == 100
MailboxDepth == 16

----------------------------------------------------------------------------
(* Values *)

Nil == <<>>
Ptr(v) == <<v>>
IsNil(p) == p = <<>>
Deref(p) == p[1]

Sources == {"whatsapp", "telegram", "slack", "gmail"}

Min(a, b) == IF a < b THEN a ELSE b

RECURSIVE Reverse(_)
Reverse(s) == IF s = <<>> THEN <<>> ELSE Append(Reverse(Tail(s)), Head(s))

LastN(s, n) == SubSeq(s, Len(s) - n + 1, Len(s))

EmptyMap == [x \in {} |-> x]

\* A caller that holds no snapshot.
NoSnap == [ls |-> Nil, st |-> Nil]

\* The zero value of ProcessedMessage: what a never-written slot holds.
ZeroPM ==
    [Message |-> Nil, Classification |-> Nil, NotifiedAt |-> Nil,
     EventsCreated |-> 0, ProcessedAt |-> 0]

ZeroStats ==
    [TotalMessages |-> 0, UrgentMessages |-> 0, TotalActionItems |-> 0,
     NotificationsSent |-> 0, EventsCreated |-> 0,
     BySource |-> [s \in Sources |-> 0]]

----------------------------------------------------------------------------
(* NewStore *)

\* A sync.RWMutex nobody holds.
Unlocked == [writer |-> FALSE, readers |-> 0]

\* Lock() of a sync.RWMutex returns when nobody holds it.
CanLock(m) == ~m.writer /\ m.readers = 0

\* NewStore's fields other than the listeners map.
NewRing(c) ==
    LET cap == IF c <= 0 THEN DefaultCapacity ELSE c IN
    /\ capacity = cap
    /\ messages = [i \in 0..(cap - 1) |-> ZeroPM]
    /\ writeIdx = 0
    /\ count = 0
    /\ notifications = <<>>
    /\ stats = ZeroStats
    /\ subscribers = {}
    /\ chans = <<>>
    /\ lastBroadcast = [delivered |-> {}, skipped |-> {}]
    /\ mu = Unlocked
    /\ ssemu = Unlocked

NewStore(c) ==
    /\ NewRing(c)
    /\ listeners = EmptyMap

----------------------------------------------------------------------------
(* AddProcessedMessage: the critical section under mu, then notifySubscribers *)

NextWriteIdx_Saturate(w, cap) == IF w + 1 >= cap THEN w ELSE w + 1

NextWriteIdx(w, cap) == (w + 1) % cap

NextCount(n, cap) == IF n < cap THEN n + 1 ELSE n

UpdateStats_CountAllNotified(st, pm) ==
    [TotalMessages |-> st.TotalMessages + 1,
     UrgentMessages |->
        st.UrgentMessages +
        (IF ~IsNil(pm.Classification) /\ Deref(pm.Classification).IsUrgent
            THEN 1 ELSE 0),
     TotalActionItems |->
        st.TotalActionItems +
        (IF ~IsNil(pm.Classification)
            THEN Len(Deref(pm.Classification).ActionItems) ELSE 0),
     NotificationsSent |-> st.NotificationsSent + 1,
     EventsCreated |-> st.EventsCreated + pm.EventsCreated,
     BySource |->
        IF ~IsNil(pm.Message)
            THEN [st.BySource EXCEPT ![Deref(pm.Message).Source] = @ + 1]
            ELSE st.BySource]

UpdateStats(st, pm) ==
    [TotalMessages |-> st.TotalMessages + 1,
     UrgentMessages |->
        st.UrgentMessages +
        (IF ~IsNil(pm.Classification) /\ Deref(pm.Classification).IsUrgent
            THEN 1 ELSE 0),
     TotalActionItems |->
        st.TotalActionItems +
        (IF ~IsNil(pm.Classification)
            THEN Len(Deref(pm.Classification).ActionItems) ELSE 0),
     NotificationsSent |->
        st.NotificationsSent + (IF ~IsNil(pm.NotifiedAt) THEN 1 ELSE 0),
     EventsCreated |-> st.EventsCreated + pm.EventsCreated,
     BySource |->
        IF ~IsNil(pm.Message)
            THEN [st.BySource EXCEPT ![Deref(pm.Message).Source] = @ + 1]
            ELSE st.BySource]

\* Lines 94-119: everything AddProcessedMessage does while it holds mu.
AddProcessedMessageLocked(pm) ==
    /\ messages' = [messages EXCEPT ![writeIdx] = pm]
    /\ writeIdx' = NextWriteIdx(writeIdx, capacity)
    /\ count' = NextCount(count, capacity)
    /\ stats' = UpdateStats(stats, pm)
    /\ inserts' = Append(inserts, pm)
    /\ UNCHANGED <<capacity, listeners, lockVars, callerVars, notifications, subVars,
                   appends>>

\* The select of notifySubscribers for one channel: send unless the buffer is full.
TrySend_DropWhenFull(ch, subs) ==
    IF ch \in subs /\ chans[ch].buf < MailboxDepth
        THEN [chans[ch] EXCEPT !.buf = @ + 1, !.sent = @ + 1]
        ELSE IF ch \in subs THEN [chans[ch] EXCEPT !.closed = TRUE]
        ELSE chans[ch]

TrySend_Unregistered(ch, subs) ==
    IF chans[ch].buf < MailboxDepth
        THEN [chans[ch] EXCEPT !.buf = @ + 1, !.sent = @ + 1]
        ELSE chans[ch]

TrySend(ch, subs) ==
    IF ch \in subs /\ chans[ch].buf < MailboxDepth
        THEN [chans[ch] EXCEPT !.buf = @ + 1, !.sent = @ + 1]
        ELSE chans[ch]

\* notifySubscribers, run under ssemu: one non-blocking send per subscriber.
notifySubscribers ==
    /\ chans' = [ch \in DOMAIN chans |-> TrySend(ch, subscribers)]
    /\ lastBroadcast' =
        [delivered |-> {ch \in subscribers : chans'[ch].buf = chans[ch].buf + 1},
         skipped |-> {ch \in subscribers : chans'[ch].buf = chans[ch].buf}]
    /\ UNCHANGED <<ringVars, listeners, lockVars, callerVars, notifications,
                   subscribers, inserts, appends>>

----------------------------------------------------------------------------
(* Reads, each under mu.RLock *)

RecentIdx_OffByOne(i) == (writeIdx - i + capacity) % capacity

\* The slot read at step i of a backward walk (i < count <= capacity, so the
\* dividend is never negative and Go's % agrees with the mathematical one).
RecentIdx(i) == (writeIdx - 1 - i + capacity) % capacity

ClampLimit_NoUpper(limit, total) == IF limit <= 0 THEN total ELSE limit

ClampLimit(limit, total) == IF limit <= 0 \/ limit > total THEN total ELSE limit

GetRecentMessages(limit) ==
    LET n == ClampLimit(limit, count) IN
    [i \in 1..n |-> messages[RecentIdx(i - 1)]]

RECURSIVE BySourceWalk_LimitOnWalk(_, _, _, _)
BySourceWalk_LimitOnWalk(source, limit, i, result) ==
    IF i < count /\ i < limit
        THEN LET pm == messages[RecentIdx(i)] IN
             BySourceWalk_LimitOnWalk(source, limit, i + 1,
                 IF ~IsNil(pm.Message) /\ Deref(pm.Message).Source = source
                     THEN Append(result, pm) ELSE result)
        ELSE result

\* Lines 153-159: the walk back from the last write, until limit records match.
RECURSIVE BySourceWalk(_, _, _, _)
BySourceWalk(source, limit, i, result) ==
    IF i < count /\ Len(result) < limit
        THEN LET pm == messages[RecentIdx(i)] IN
             BySourceWalk(source, limit, i + 1,
                 IF ~IsNil(pm.Message) /\ Deref(pm.Message).Source = source
                     THEN Append(result, pm) ELSE result)
        ELSE result

GetRecentMessagesBySource(source, limit) ==
    BySourceWalk(source, IF limit <= 0 THEN count ELSE limit, 0, <<>>)

RECURSIVE ItemsWalk_IgnoreLimit(_, _, _, _)
ItemsWalk_IgnoreLimit(pm, limit, j, result) ==
    LET items == Deref(pm.Classification).ActionItems IN
    IF j < Len(items)
        THEN ItemsWalk_IgnoreLimit(pm, limit, j + 1,
                 Append(result,
                     [Item |-> items[j + 1], SourceMsg |-> pm.Message,
                      EventCreated |-> j < pm.EventsCreated,
                      ProcessedAt |-> pm.ProcessedAt]))
        ELSE result

RECURSIVE ItemsWalk_FlagSuccesses(_, _, _, _)
ItemsWalk_FlagSuccesses(pm, limit, j, result) ==
    LET items == Deref(pm.Classification).ActionItems IN
    IF j < Len(items) /\ Len(result) < limit
        THEN ItemsWalk_FlagSuccesses(pm, limit, j + 1,
                 Append(result,
                     [Item |-> items[j + 1], SourceMsg |-> pm.Message,
                      EventCreated |-> pm.EventsCreated > 0,
                      ProcessedAt |-> pm.ProcessedAt]))
        ELSE result

\* The inner loop of GetActionItems over one record's action items.
RECURSIVE ItemsWalk(_, _, _, _)
ItemsWalk(pm, limit, j, result) ==
    LET items == Deref(pm.Classification).ActionItems IN
    IF j < Len(items) /\ Len(result) < limit
        THEN ItemsWalk(pm, limit, j + 1,
                 Append(result,
                     [Item |-> items[j + 1], SourceMsg |-> pm.Message,
                      EventCreated |-> j < pm.EventsCreated,
                      ProcessedAt |-> pm.ProcessedAt]))
        ELSE result

RECURSIVE ActionItemsWalk(_, _, _)
ActionItemsWalk(limit, i, result) ==
    IF i < count /\ Len(result) < limit
        THEN LET pm == messages[RecentIdx(i)] IN
             ActionItemsWalk(limit, i + 1,
                 IF IsNil(pm.Classification) THEN result
                 ELSE ItemsWalk(pm, limit, 0, result))
        ELSE result

GetActionItems(limit) ==
    ActionItemsWalk(IF limit <= 0 THEN count ELSE limit, 0, <<>>)

GetStats == stats

GetRecentNotifications_Chronological(limit) ==
    LET total == Len(notifications)
        n == ClampLimit(limit, total) IN
    [i \in 1..n |-> notifications[total - n + i]]

\* Lines 222-234, under mu.RLock.
GetRecentNotifications(limit) ==
    LET total == Len(notifications)
        n == ClampLimit(limit, total) IN
    [i \in 1..n |-> notifications[total - (i - 1)]]

----------------------------------------------------------------------------
(* AddNotification *)

LogFull_Late(log) == Len(log) > maxNotifications

LogFull(log) == Len(log) >= maxNotifications

AddNotificationLocked(n) ==
    /\ notifications' =
        Append(IF LogFull(notifications) THEN Tail(notifications)
               ELSE notifications, n)
    /\ appends' = Append(appends, n)
    /\ UNCHANGED <<ringVars, listeners, lockVars, callerVars, subVars, inserts>>

----------------------------------------------------------------------------
(* Subscribe, Unsubscribe *)

\* History: the calls of notifySubscribers that have taken place or begun.
Broadcasts == IF proc.pc = "notifySubscribers" THEN Len(inserts) - 1 ELSE Len(inserts)

\* Lines 284-289: make(chan string, 16), then the insertion under ssemu.  The
\* channel carries two history fields: the tokens ever sent on it, and the
\* number of broadcasts made before it was subscribed.
Subscribe ==
    /\ Len(chans) < MaxSubs
    /\ CanLock(ssemu)
    /\ chans' = Append(chans, [buf |-> 0, closed |-> FALSE, sent |-> 0,
                               since |-> Broadcasts])
    /\ subscribers' = subscribers \cup {Len(chans) + 1}
    /\ UNCHANGED <<ringVars, listeners, lockVars, callerVars, notifications,
                   lastBroadcast, proc, clock,
                   inserts, appends, pipeVars>>

UnsubscribeDelete_NoLock(ch) ==
    /\ ch \in subscribers
    /\ subscribers' = subscribers \ {ch}
    /\ UNCHANGED <<ringVars, listeners, lockVars, callerVars, notifications, chans,
                   lastBroadcast, proc,
                   clock, inserts, appends, pipeVars>>

\* Unsubscribe, lines 293-295: delete under ssemu.  A handler calls it once,
\* for the channel its Subscribe returned.
UnsubscribeDelete(ch) ==
    /\ ch \in subscribers
    /\ CanLock(ssemu)
    /\ subscribers' = subscribers \ {ch}
    /\ UNCHANGED <<ringVars, listeners, lockVars, callerVars, notifications, chans,
                   lastBroadcast, proc,
                   clock, inserts, appends, pipeVars>>

\* Unsubscribe, line 296: close(ch), after ssemu is released.
UnsubscribeClose(ch) ==
    /\ ch \in DOMAIN chans
    /\ ch \notin subscribers
    /\ ~chans[ch].closed
    /\ chans' = [chans EXCEPT ![ch].closed = TRUE]
    /\ UNCHANGED <<ringVars, listeners, lockVars, callerVars, notifications,
                   subscribers, lastBroadcast,
                   proc, clock, inserts, appends, pipeVars>>

\* The SSE handler's receive from its channel (server, handleSSE).
Receive(ch) ==
    /\ ch \in subscribers
    /\ chans[ch].buf > 0
    /\ chans' = [chans EXCEPT ![ch].buf = @ - 1]
    /\ UNCHANGED <<ringVars, listeners, lockVars, callerVars, notifications,
                   subscribers, lastBroadcast,
                   proc, clock, inserts, appends, pipeVars>>

----------------------------------------------------------------------------
(* A caller of the Store on its own: AddProcessedMessage in its two steps *)

ProcIdle ==
    [pc |-> "idle", draining |-> FALSE, msg |-> Nil, result |-> Nil, idx |-> 0,
     notifiedAt |-> Nil, eventsCreated |-> 0, pm |-> Nil, todo |-> {},
     content |-> Nil]

\* The pipeline before main has started anything.
PipeIdle ==
    /\ ctx = "live"
    /\ messageChan = [buf |-> <<>>, closed |-> FALSE]
    /\ mainPc = "none"
    /\ lst = EmptyMap
    /\ calCfg = FALSE
    /\ nextID = 1
    /\ panicked = FALSE
    /\ hist = [sent |-> <<>>, dequeued |-> <<>>, atCancel |-> <<>>, calls |-> <<>>]

\* AddProcessedMessage up to mu.Unlock; the caller took ProcessedAt from time.Now().
StoreInsert(pm) ==
    /\ proc.pc = "idle"
    /\ AddProcessedMessageLocked(pm)
    /\ proc' = [proc EXCEPT !.pc = "notifySubscribers"]
    /\ clock' = clock + 1
    /\ UNCHANGED pipeVars

\* AddProcessedMessage from mu.Unlock to its return: notifySubscribers("refresh").
AddProcessedMessageNotify ==
    /\ proc.pc = "notifySubscribers"
    /\ notifySubscribers
    /\ proc' = [proc EXCEPT !.pc = "idle"]
    /\ UNCHANGED <<clock, pipeVars>>

AddNotification(n) ==
    /\ AddNotificationLocked(n)
    /\ clock' = clock + 1
    /\ UNCHANGED <<proc, pipeVars>>

Msg(id, source) == [ID |-> id, Source |-> source]

Cls(urgent, items) == [IsUrgent |-> urgent, ActionItems |-> items]

PM(m, c, n, e, t) ==
    [Message |-> m, Classification |-> c, NotifiedAt |-> n, EventsCreated |-> e,
     ProcessedAt |-> t]

----------------------------------------------------------------------------
(* SpecStore: inserts into rings of every capacity 1..MaxCapacity *)

RingInputs(t) ==
    { PM(m, c, Nil, 0, t) :
        m \in {Nil, Ptr(Msg(t, "slack")), Ptr(Msg(t, "gmail"))},
        c \in {Nil, Ptr(Cls(FALSE, <<1>>))} }

InitStore ==
    /\ \E c \in 1..MaxCapacity : NewStore(c)
    /\ proc = ProcIdle
    /\ rd = <<>>
    /\ heap = EmptyMap
    /\ snap = NoSnap
    /\ sse = <<>>
    /\ clock = 1
    /\ inserts = <<>>
    /\ appends = <<>>
    /\ PipeIdle

RingInsert ==
    /\ Len(inserts) < MaxInserts
    /\ \E pm \in RingInputs(clock) : StoreInsert(pm)

NextStore == RingInsert \/ AddProcessedMessageNotify

SpecStore == InitStore /\ [][NextStore]_vars

----------------------------------------------------------------------------
(* SpecStats: inserts whose fields vary independently *)

StatInputs(t) ==
    { PM(m, c, n, e, t) :
        m \in {Nil, Ptr(Msg(t, "slack")), Ptr(Msg(t, "gmail"))},
        c \in {Nil, Ptr(Cls(TRUE, <<>>)), Ptr(Cls(FALSE, <<1, 2>>))},
        n \in {Nil, Ptr(t)},
        e \in 0..1 }

InitStats ==
    /\ \E c \in 1..MaxStatCapacity : NewStore(c)
    /\ proc = ProcIdle
    /\ rd = <<>>
    /\ heap = EmptyMap
    /\ snap = NoSnap
    /\ sse = <<>>
    /\ clock = 1
    /\ inserts = <<>>
    /\ appends = <<>>
    /\ PipeIdle

StatInsert ==
    /\ Len(inserts) < MaxStatInserts
    /\ \E pm \in StatInputs(clock) : StoreInsert(pm)

NextStats == StatInsert \/ AddProcessedMessageNotify

SpecStats == InitStats /\ [][NextStats]_vars

----------------------------------------------------------------------------
(* SpecActions: inserts of records with and without action items, into rings
   that wrap, for the reads that walk them *)

MaxActionCapacity == 2  \* ring capacities
MaxActionInserts == 3   \* inserts

ActionInputs(t) ==
    {PM(Ptr(Msg(t, "slack")), Nil, Nil, 0, t), PM(Nil, Nil, Nil, 0, t)}
    \cup UNION {{PM(Ptr(Msg(t, src)), Ptr(Cls(FALSE, [j \in 1..k |-> j])), Nil, e, t) :
                    src \in {"slack", "gmail"}, e \in 0..k} : k \in 0..2}

InitActions ==
    /\ \E c \in 1..MaxActionCapacity : NewStore(c)
    /\ proc = ProcIdle
    /\ rd = <<>>
    /\ heap = EmptyMap
    /\ snap = NoSnap
    /\ sse = <<>>
    /\ clock = 1
    /\ inserts = <<>>
    /\ appends = <<>>
    /\ PipeIdle

ActionInsert ==
    /\ Len(inserts) < MaxActionInserts
    /\ \E pm \in ActionInputs(clock) : StoreInsert(pm)

NextActions == ActionInsert \/ AddProcessedMessageNotify

SpecActions == InitActions /\ [][NextActions]_vars

----------------------------------------------------------------------------
(* SpecLog: appends to the notification log, past its cap *)

LogInput(t) ==
    [Message |-> Ptr(Msg(t, "slack")),
     Reason |-> IF t % 2 = 1 THEN "urgent" ELSE "action_item",
     SentAt |-> t]

InitLog ==
    /\ NewStore(1)
    /\ proc = ProcIdle
    /\ rd = <<>>
    /\ heap = EmptyMap
    /\ snap = NoSnap
    /\ sse = <<>>
    /\ clock = 1
    /\ inserts = <<>>
    /\ appends = <<>>
    /\ PipeIdle

LogAppend ==
    /\ Len(appends) < MaxAppends
    /\ AddNotification(LogInput(clock))

NextLog == LogAppend

SpecLog == InitLog /\ [][NextLog]_vars

----------------------------------------------------------------------------
(* SpecSSE: subscribers come, read and go while records are inserted *)

InitSSE ==
    /\ NewStore(1)
    /\ proc = ProcIdle
    /\ rd = <<>>
    /\ heap = EmptyMap
    /\ snap = NoSnap
    /\ sse = <<>>
    /\ clock = 1
    /\ inserts = <<>>
    /\ appends = <<>>
    /\ PipeIdle

SSEInsert ==
    /\ Len(inserts) < MaxSSEInserts
    /\ StoreInsert(PM(Ptr(Msg(clock, "slack")), Nil, Nil, 0, clock))

NextSSE ==
    \/ Subscribe
    \/ \E ch \in DOMAIN chans : Receive(ch)
    \/ SSEInsert
    \/ AddProcessedMessageNotify

SpecSSE == InitSSE /\ [][NextSSE]_vars

----------------------------------------------------------------------------
(* SpecDeliver: handlers subscribe, read and unsubscribe around the inserts
   that fill a mailbox, starting where SpecSSE is after DeliverBacklog inserts
   that its one subscriber has not read *)

DeliverBacklog == 15    \* inserts made before, none read by the subscriber
MaxDeliverInserts == 3  \* inserts explored from there

Backlog == [i \in 1..DeliverBacklog |-> PM(Ptr(Msg(i, "slack")), Nil, Nil, 0, i)]

RECURSIVE BacklogStats(_)
BacklogStats(k) ==
    IF k = 0 THEN ZeroStats ELSE UpdateStats(BacklogStats(k - 1), Backlog[k])

InitDeliver ==
    /\ capacity = 1
    /\ messages = [i \in 0..0 |-> Backlog[DeliverBacklog]]
    /\ writeIdx = 0
    /\ count = 1
    /\ notifications = <<>>
    /\ stats = BacklogStats(DeliverBacklog)
    /\ subscribers = {1}
    /\ chans = <<[buf |-> Min(DeliverBacklog, MailboxDepth), closed |-> FALSE,
                  sent |-> Min(DeliverBacklog, MailboxDepth), since |-> 0]>>
    /\ lastBroadcast = IF DeliverBacklog <= MailboxDepth
                         THEN [delivered |-> {1}, skipped |-> {}]
                         ELSE [delivered |-> {}, skipped |-> {1}]
    /\ mu = Unlocked
    /\ ssemu = Unlocked
    /\ listeners = EmptyMap
    /\ proc = ProcIdle
    /\ rd = <<>>
    /\ heap = EmptyMap
    /\ snap = NoSnap
    /\ sse = <<>>
    /\ clock = DeliverBacklog + 1
    /\ inserts = Backlog
    /\ appends = <<>>
    /\ PipeIdle

DeliverInsert ==
    /\ Len(inserts) < DeliverBacklog + MaxDeliverInserts
    /\ StoreInsert(PM(Ptr(Msg(clock, "slack")), Nil, Nil, 0, clock))

NextDeliver ==
    \/ Subscribe
    \/ \E ch \in DOMAIN chans : UnsubscribeDelete(ch)
    \/ \E ch \in DOMAIN chans : UnsubscribeClose(ch)
    \/ \E ch \in DOMAIN chans : Receive(ch)
    \/ DeliverInsert
    \/ AddProcessedMessageNotify

SpecDeliver == InitDeliver /\ [][NextDeliver]_vars

----------------------------------------------------------------------------
(* Listener statuses *)

\* main's switch on l.Name(), lines 71-81: the Source registered for a listener.
SwitchSource(name) ==
    CASE name = "WhatsApp" -> "whatsapp"
      [] name = "Telegram" -> "telegram"
      [] name = "Slack" -> "slack"
      [] name = "Gmail" -> "gmail"
      [] OTHER -> ""

UpdateListenerStatus(ls, name, source, connected) ==
    IF name \in DOMAIN ls
        THEN [ls EXCEPT ![name].Connected = connected]
        ELSE [n \in DOMAIN ls \cup {name} |->
                IF n = name
                    THEN [Name |-> name, Source |-> source, Connected |-> connected,
                          MessageCount |-> 0, LastMessage |-> Nil]
                    ELSE ls[n]]

\* The listeners in the order initializeListeners appends them.
ListenerOrder == <<"whatsapp", "telegram", "slack", "gmail">>

RECURSIVE RegisterAll(_, _, _)
RegisterAll(ls, names, i) ==
    IF i > Len(ListenerOrder) THEN ls
    ELSE RegisterAll(
            IF ListenerOrder[i] \in names
                THEN UpdateListenerStatus(ls, ListenerOrder[i],
                                          SwitchSource(ListenerOrder[i]), TRUE)
                ELSE ls,
            names, i + 1)

\* IncrementListenerMessageCount: the first listener of that source the map
\* iteration meets (any of them), or none.
IncrementListenerMessageCount(source) ==
    LET match == {n \in DOMAIN listeners : listeners[n].Source = source} IN
    IF match = {}
        THEN listeners' = listeners
        ELSE \E n \in match :
                listeners' = [listeners EXCEPT ![n].MessageCount = @ + 1,
                                               ![n].LastMessage = Ptr(clock)]

----------------------------------------------------------------------------
(* SpecSnap: a caller takes snapshots of the statuses and the stats and writes
   to what it got, while the Store is updated *)

MaxSnapClock == 3       \* calls of time.Now() by the Store
MaxSnapInserts == 1     \* calls of AddProcessedMessage

SnapNames == {"telegram", "slack"}

\* What the time.Time cell behind p holds: the time.Now() it was allocated
\* with (line 186), or what has since been written through a pointer to it.
TimeAt(p) == IF Deref(p) \in DOMAIN heap THEN heap[Deref(p)] ELSE Deref(p)

\* Lines 196-205: cp := *ls for every entry, the pointer LastMessage with it.
GetListenerStatuses == [n \in DOMAIN listeners |-> listeners[n]]

snapFrame == <<ringVars, notifications, subVars, lockVars, proc, inserts, appends,
               pipeVars, sse>>

SnapUpdateStatus(name, source, connected) ==
    /\ listeners' = UpdateListenerStatus(listeners, name, source, connected)
    /\ UNCHANGED <<clock, heap, snap, snapFrame>>

SnapIncrement(source) ==
    /\ clock < MaxSnapClock
    /\ IncrementListenerMessageCount(source)
    /\ clock' = clock + 1
    /\ UNCHANGED <<heap, snap, snapFrame>>

SnapInsert ==
    /\ Len(inserts) < MaxSnapInserts
    /\ StoreInsert(PM(Ptr(Msg(clock, "slack")), Nil, Nil, 0, clock))

\* The caller calls GetListenerStatuses, or GetStats.
TakeListenerStatuses ==
    /\ snap' = [snap EXCEPT !.ls = Ptr(GetListenerStatuses)]
    /\ UNCHANGED <<listeners, clock, heap, snapFrame>>

TakeStats ==
    /\ snap' = [snap EXCEPT !.st = Ptr(GetStats)]
    /\ UNCHANGED <<listeners, clock, heap, snapFrame>>

\* The caller assigns to the fields of an entry it got.
CallerSetFields(n) ==
    /\ ~IsNil(snap.ls)
    /\ n \in DOMAIN Deref(snap.ls)
    /\ snap' = [snap EXCEPT !.ls = Ptr([Deref(@) EXCEPT ![n].Connected = FALSE,
                                                       ![n].MessageCount = 0,
                                                       ![n].LastMessage = Nil])]
    /\ UNCHANGED <<listeners, clock, heap, snapFrame>>

\* The caller writes to the BySource map of the stats it got.
CallerSetBySource(s) ==
    /\ ~IsNil(snap.st)
    /\ snap' = [snap EXCEPT !.st = Ptr([Deref(@) EXCEPT !.BySource[s] = 0])]
    /\ UNCHANGED <<listeners, clock, heap, snapFrame>>

\* The caller writes through the LastMessage of an entry it got:
\* *status.LastMessage = time.Time{}.
CallerWriteLastMessage(n) ==
    /\ ~IsNil(snap.ls)
    /\ n \in DOMAIN Deref(snap.ls)
    /\ ~IsNil(Deref(snap.ls)[n].LastMessage)
    /\ heap' = [a \in DOMAIN heap \cup {Deref(Deref(snap.ls)[n].LastMessage)} |->
                    IF a = Deref(Deref(snap.ls)[n].LastMessage) THEN 0 ELSE heap[a]]
    /\ UNCHANGED <<listeners, clock, snap, snapFrame>>

InitSnap ==
    /\ NewStore(1)
    /\ proc = ProcIdle
    /\ rd = <<>>
    /\ heap = EmptyMap
    /\ snap = NoSnap
    /\ sse = <<>>
    /\ clock = 1
    /\ inserts = <<>>
    /\ appends = <<>>
    /\ PipeIdle

NextSnap ==
    \/ \E name \in SnapNames, source \in SnapNames, connected \in BOOLEAN :
            SnapUpdateStatus(name, source, connected)
    \/ \E source \in SnapNames : SnapIncrement(source)
    \/ SnapInsert
    \/ AddProcessedMessageNotify
    \/ TakeListenerStatuses
    \/ TakeStats
    \/ \E n \in SnapNames : CallerSetFields(n)
    \/ \E s \in Sources : CallerSetBySource(s)
    \/ \E n \in SnapNames : CallerWriteLastMessage(n)

SpecSnap == InitSnap /\ [][NextSnap]_vars

----------------------------------------------------------------------------
(* main *)

QueueCap == 100
MainStoreCapacity == 500

Kinds == {"whatsapp", "telegram", "slack", "gmail"}

\* Listeners whose handler runs inside Start (Gmail's poll loop; Telegram's
\* dispatcher runs inside client.Run).
SyncKinds == {"telegram", "gmail"}

Configured == DOMAIN lst

Alive == ~panicked

\* Lines 70-83: the registration loop, before any goroutine is started.
MainRegister ==
    /\ Alive
    /\ mainPc = "register"
    /\ listeners' = RegisterAll(listeners, Configured, 1)
    /\ mainPc' = "wait"
    /\ UNCHANGED <<ringVars, lockVars, callerVars, notifications, subVars, proc, clock,
                   inserts,
                   appends, ctx, messageChan, lst, calCfg, nextID, panicked, hist>>

\* The signal goroutine, lines 54-58: cancel().
Cancel ==
    /\ Alive
    /\ mainPc # "register"
    /\ ctx = "live"
    /\ ctx' = "done"
    /\ hist' = [hist EXCEPT !.atCancel = messageChan.buf]
    /\ UNCHANGED <<ringVars, listeners, lockVars, callerVars, notifications, subVars,
                   proc, clock, inserts,
                   appends, messageChan, mainPc, lst, calCfg, nextID, panicked>>

\* Lines 155-161: listenerWg.Wait(), or <-ctx.Done() when no listener is configured.
MainWait ==
    /\ Alive
    /\ mainPc = "wait"
    /\ IF Configured # {}
          THEN \A l \in Configured : lst[l].start = "returned"
          ELSE ctx = "done"
    /\ mainPc' = "close"
    /\ UNCHANGED <<ringVars, listeners, lockVars, callerVars, notifications, subVars,
                   proc, clock, inserts,
                   appends, ctx, messageChan, lst, calCfg, nextID, panicked, hist>>

\* Line 164: close(messageChan).
MainClose ==
    /\ Alive
    /\ mainPc = "close"
    /\ messageChan' = [messageChan EXCEPT !.closed = TRUE]
    /\ mainPc' = "waitProc"
    /\ UNCHANGED <<ringVars, listeners, lockVars, callerVars, notifications, subVars,
                   proc, clock, inserts,
                   appends, ctx, lst, calCfg, nextID, panicked, hist>>

\* Line 165: wg.Wait().
MainWaitProc ==
    /\ Alive
    /\ mainPc = "waitProc"
    /\ proc.pc = "returned"
    /\ mainPc' = "stop"
    /\ UNCHANGED <<ringVars, listeners, lockVars, callerVars, notifications, subVars,
                   proc, clock, inserts,
                   appends, ctx, messageChan, lst, calCfg, nextID, panicked, hist>>

\* Lines 168-174: Stop() on every listener (WhatsApp disconnects), then the end.
MainStop ==
    /\ Alive
    /\ mainPc = "stop"
    /\ lst' = [l \in Configured |-> [lst[l] EXCEPT !.conn = FALSE]]
    /\ mainPc' = "done"
    /\ UNCHANGED <<ringVars, listeners, lockVars, callerVars, notifications, subVars,
                   proc, clock, inserts,
                   appends, ctx, messageChan, calCfg, nextID, panicked, hist>>

\* main from listenerWg.Wait() on.
MainStep == MainWait \/ MainClose \/ MainWaitProc \/ MainStop

----------------------------------------------------------------------------
(* Listeners: Start, the handler that builds an Event, the send on out *)

lstFrame == <<ringVars, listeners, lockVars, callerVars, notifications, subVars, proc,
              clock, inserts,
              appends, ctx, mainPc, calCfg, hist>>

\* Start up to the point where Events can arrive: Gmail and WhatsApp may fail
\* before it (credentials, storage, connect); Slack starts handleEvents;
\* WhatsApp registers its handler and connects.
ListenerStartOk(l) ==
    /\ Alive
    /\ mainPc # "register"
    /\ lst[l].start = "starting"
    /\ lst' = [lst EXCEPT ![l].start = "running",
                          ![l].conn = (l = "whatsapp"),
                          ![l].h = "idle"]
    /\ UNCHANGED <<lstFrame, messageChan, nextID, panicked>>

ListenerStartFail(l) ==
    /\ Alive
    /\ mainPc # "register"
    /\ l # "slack"
    /\ lst[l].start = "starting"
    /\ lst' = [lst EXCEPT ![l].start = "returned"]
    /\ UNCHANGED <<lstFrame, messageChan, nextID, panicked>>

\* Whether a native update can reach l's handler now.
CanDeliver(l) ==
    CASE l \in SyncKinds -> lst[l].start = "running"
      [] l = "slack" -> lst[l].h = "idle"
      [] l = "whatsapp" -> lst[l].conn

\* The handler builds an Event and is at its send: out <- msg.
ListenerEvent(l, maxEvents) ==
    /\ Alive
    /\ nextID <= maxEvents
    /\ lst[l].h = "idle"
    /\ CanDeliver(l)
    /\ lst' = [lst EXCEPT ![l].h = "sending", ![l].pending = Ptr(Msg(nextID, l))]
    /\ nextID' = nextID + 1
    /\ UNCHANGED <<lstFrame, messageChan, panicked>>

\* A buffered channel send appends at the tail of the buffer.
Enqueue_Front(buf, m) == <<m>> \o buf

Enqueue(buf, m) == Append(buf, m)

\* A send can proceed when the buffer has a free slot.
HasRoom_Always(buf) == TRUE

HasRoom(buf) == Len(buf) < QueueCap

\* out <- msg on an open channel: blocks while the buffer is full.
ListenerSend(l) ==
    /\ Alive
    /\ lst[l].h = "sending"
    /\ ~messageChan.closed
    /\ HasRoom(messageChan.buf)
    /\ messageChan' = [messageChan EXCEPT !.buf = Enqueue(@, Deref(lst[l].pending))]
    /\ lst' = [lst EXCEPT ![l].h = "idle", ![l].pending = Nil]
    /\ hist' = [hist EXCEPT !.sent = Append(@, Deref(lst[l].pending))]
    /\ UNCHANGED <<ringVars, listeners, lockVars, callerVars, notifications, subVars,
                   proc, clock, inserts,
                   appends, ctx, mainPc, calCfg, nextID, panicked>>

\* out <- msg on a closed channel: panic.
ListenerSendClosed(l) ==
    /\ Alive
    /\ lst[l].h = "sending"
    /\ messageChan.closed
    /\ panicked' = TRUE
    /\ UNCHANGED <<lstFrame, messageChan, lst, nextID>>

\* Start returns.  Gmail: at its select, on ctx.Done.  Telegram: client.Run
\* ends on ctx.Done or on an error.  Slack: RunContext ends on ctx.Done or on an
\* error, whatever handleEvents is doing.  WhatsApp: on ctx.Done.
CanReturn(l) ==
    CASE l = "gmail" -> lst[l].h = "idle" /\ ctx = "done"
      [] l = "telegram" -> lst[l].h = "idle"
      [] l = "slack" -> TRUE
      [] l = "whatsapp" -> ctx = "done"

ListenerReturn(l) ==
    /\ Alive
    /\ lst[l].start = "running"
    /\ CanReturn(l)
    /\ lst' = [lst EXCEPT ![l].start = "returned"]
    /\ UNCHANGED <<lstFrame, messageChan, nextID, panicked>>

\* Slack's handleEvents takes the ctx.Done branch of its select.
SlackHandlerExit ==
    /\ Alive
    /\ "slack" \in Configured
    /\ lst["slack"].h = "idle"
    /\ ctx = "done"
    /\ lst' = [lst EXCEPT !["slack"].h = "exited"]
    /\ UNCHANGED <<lstFrame, messageChan, nextID, panicked>>

----------------------------------------------------------------------------
(* processMessages and handleMessage *)

procFrame == <<ctx, mainPc, lst, calCfg, nextID, panicked>>

\* The context a call is handed: cls.ClassifyMessage(ctx, msg) and
\* cal.CreateEvent(ctx, &item, msg) get the process-wide one, as it is at the
\* call; notify.Notify(msg) has no context parameter.
Handed(op) == IF op \in {"classify", "calendar"} THEN Ptr(ctx) ELSE Nil

\* A call of the classifier, the notifier or the calendar for Event id; arg is 0
\* when the call is given the Event itself and the action item otherwise.
Called(op, id, arg, ok) ==
    [op |-> op, id |-> id, arg |-> arg, ok |-> ok, ctx |-> Handed(op)]

\* A receive takes the head of the buffer out of it.
AfterReceive_Keep(buf) == buf

AfterReceive(buf) == Tail(buf)

\* A receive from messageChan that yields an Event, then the first statement
\* of handleMessage: IncrementListenerMessageCount.
Dequeue ==
    /\ messageChan.buf # <<>>
    /\ messageChan' = [messageChan EXCEPT !.buf = AfterReceive(@)]
    /\ IncrementListenerMessageCount(Head(messageChan.buf).Source)
    /\ clock' = clock + 1
    /\ hist' = [hist EXCEPT !.dequeued = Append(@, Head(messageChan.buf))]
    /\ UNCHANGED <<ringVars, lockVars, callerVars, notifications, subVars, inserts,
                   appends,
                   procFrame>>

\* The select of processMessages, case <-ctx.Done(): enter the drain loop.
ProcSelectDone_ReturnAtOnce ==
    /\ Alive
    /\ proc.pc = "idle" /\ ~proc.draining
    /\ mainPc # "register"
    /\ ctx = "done"
    /\ proc' = [proc EXCEPT !.pc = "returned"]
    /\ UNCHANGED <<ringVars, listeners, lockVars, callerVars, notifications, subVars,
                   clock, inserts,
                   appends, messageChan, hist, procFrame>>

ProcSelectDone ==
    /\ Alive
    /\ proc.pc = "idle" /\ ~proc.draining
    /\ mainPc # "register"
    /\ ctx = "done"
    /\ proc' = [proc EXCEPT !.draining = TRUE]
    /\ UNCHANGED <<ringVars, listeners, lockVars, callerVars, notifications, subVars,
                   clock, inserts,
                   appends, messageChan, hist, procFrame>>

\* case msg, ok := <-messages with ok, or the next msg of the drain loop.
ProcReceive ==
    /\ Alive
    /\ proc.pc = "idle"
    /\ mainPc # "register"
    /\ Dequeue
    /\ proc' = [proc EXCEPT !.pc = "classify", !.msg = Ptr(Head(messageChan.buf))]

ProcReturn_OnEmpty ==
    /\ Alive
    /\ proc.pc = "idle"
    /\ mainPc # "register"
    /\ messageChan.buf = <<>>
    /\ proc' = [proc EXCEPT !.pc = "returned"]
    /\ UNCHANGED <<ringVars, listeners, lockVars, callerVars, notifications, subVars,
                   clock, inserts,
                   appends, messageChan, hist, procFrame>>

\* The channel is closed and empty: !ok in the select, or the end of the range.
ProcReturn ==
    /\ Alive
    /\ proc.pc = "idle"
    /\ mainPc # "register"
    /\ messageChan.buf = <<>>
    /\ messageChan.closed
    /\ proc' = [proc EXCEPT !.pc = "returned"]
    /\ UNCHANGED <<ringVars, listeners, lockVars, callerVars, notifications, subVars,
                   clock, inserts,
                   appends, messageChan, hist, procFrame>>

\* Back at the top of the loop, handleMessage's locals gone.
AtLoop(p) ==
    [p EXCEPT !.pc = "notifySubscribers", !.msg = Nil, !.result = Nil, !.idx = 0,
              !.notifiedAt = Nil, !.eventsCreated = 0]

\* ClassifyMessage fails, lines 242-252: the record without classification.
ProcClassifyFail_NoRecord ==
    /\ Alive
    /\ proc.pc = "classify"
    /\ hist' = [hist EXCEPT
                  !.calls = Append(@, Called("classify", Deref(proc.msg).ID, 0, FALSE))]
    /\ proc' = [AtLoop(proc) EXCEPT !.pc = "idle"]
    /\ UNCHANGED <<ringVars, listeners, lockVars, callerVars, notifications, subVars,
                   clock, inserts,
                   appends, messageChan, procFrame>>

ProcClassifyFail_ThenStop ==
    /\ Alive
    /\ proc.pc = "classify"
    /\ hist' = [hist EXCEPT
                  !.calls = Append(@, Called("classify", Deref(proc.msg).ID, 0, FALSE))]
    /\ AddProcessedMessageLocked(PM(proc.msg, Nil, Nil, 0, clock))
    /\ clock' = clock + 1
    /\ proc' = [AtLoop(proc) EXCEPT !.pc = "returned"]
    /\ UNCHANGED <<messageChan, procFrame>>

ProcClassifyFail ==
    /\ Alive
    /\ proc.pc = "classify"
    /\ hist' = [hist EXCEPT
                  !.calls = Append(@, Called("classify", Deref(proc.msg).ID, 0, FALSE))]
    /\ AddProcessedMessageLocked(PM(proc.msg, Nil, Nil, 0, clock))
    /\ clock' = clock + 1
    /\ proc' = AtLoop(proc)
    /\ UNCHANGED <<messageChan, procFrame>>

\* ClassifyMessage succeeds with result r, lines 241, 254-255.
ProcClassifyOk(r) ==
    /\ Alive
    /\ proc.pc = "classify"
    /\ hist' = [hist EXCEPT
                  !.calls = Append(@, Called("classify", Deref(proc.msg).ID, 0, TRUE))]
    /\ proc' = [proc EXCEPT !.pc = IF r.IsUrgent THEN "urgent" ELSE "items",
                            !.result = Ptr(r), !.idx = 0,
                            !.notifiedAt = Nil, !.eventsCreated = 0]
    /\ UNCHANGED <<ringVars, listeners, lockVars, callerVars, notifications, subVars,
                   clock, inserts,
                   appends, messageChan, procFrame>>

ProcUrgent_LogAnyway(ok) ==
    /\ Alive
    /\ proc.pc = "urgent"
    /\ hist' = [hist EXCEPT
                  !.calls = Append(@, Called("notify", Deref(proc.msg).ID, 0, ok))]
    /\ AddNotificationLocked(
            [Message |-> proc.msg, Reason |-> "urgent", SentAt |-> clock])
    /\ clock' = clock + 1
    /\ proc' = [proc EXCEPT !.pc = "items", !.notifiedAt = Ptr(clock)]
    /\ UNCHANGED <<messageChan, procFrame>>

\* Lines 258-276: the urgency notification; ok is whether Notify succeeded.
ProcUrgent(ok) ==
    /\ Alive
    /\ proc.pc = "urgent"
    /\ hist' = [hist EXCEPT
                  !.calls = Append(@, Called("notify", Deref(proc.msg).ID, 0, ok))]
    /\ IF ok
          THEN /\ AddNotificationLocked(
                    [Message |-> proc.msg, Reason |-> "urgent", SentAt |-> clock])
               /\ clock' = clock + 1
               /\ proc' = [proc EXCEPT !.pc = "items", !.notifiedAt = Ptr(clock)]
          ELSE /\ proc' = [proc EXCEPT !.pc = "items"]
               /\ UNCHANGED <<ringVars, listeners, lockVars, callerVars, notifications,
                              subVars, clock,
                              inserts, appends>>
    /\ UNCHANGED <<messageChan, procFrame>>

AfterItemNotify_Always(p) == [p EXCEPT !.pc = "calendar"]

\* Where the loop over the action items goes after the notification of item idx.
AfterItemNotify(p) ==
    IF calCfg THEN [p EXCEPT !.pc = "calendar"] ELSE [p EXCEPT !.idx = @ + 1]

ProcItemNotify_FailureSkipsCalendar(ok) ==
    /\ Alive
    /\ proc.pc = "items"
    /\ proc.idx < Len(Deref(proc.result).ActionItems)
    /\ hist' = [hist EXCEPT
                  !.calls = Append(@, Called("notify", Deref(proc.msg).ID,
                                      Deref(proc.result).ActionItems[proc.idx + 1], ok))]
    /\ IF ok
          THEN /\ AddNotificationLocked(
                    [Message |-> proc.msg, Reason |-> "action_item", SentAt |-> clock])
               /\ clock' = clock + 1
               /\ proc' = AfterItemNotify(
                    [proc EXCEPT !.notifiedAt = IF IsNil(@) THEN Ptr(clock) ELSE @])
          ELSE /\ proc' = [proc EXCEPT !.idx = @ + 1]
               /\ UNCHANGED <<ringVars, listeners, lockVars, callerVars, notifications,
                              subVars, clock,
                              inserts, appends>>
    /\ UNCHANGED <<messageChan, procFrame>>

ProcItemNotify_Overwrite(ok) ==
    /\ Alive
    /\ proc.pc = "items"
    /\ proc.idx < Len(Deref(proc.result).ActionItems)
    /\ hist' = [hist EXCEPT
                  !.calls = Append(@, Called("notify", Deref(proc.msg).ID,
                                      Deref(proc.result).ActionItems[proc.idx + 1], ok))]
    /\ IF ok
          THEN /\ AddNotificationLocked(
                    [Message |-> proc.msg, Reason |-> "action_item", SentAt |-> clock])
               /\ clock' = clock + 1
               /\ proc' = AfterItemNotify(
                    [proc EXCEPT !.notifiedAt = Ptr(clock)])
          ELSE /\ proc' = AfterItemNotify(proc)
               /\ UNCHANGED <<ringVars, listeners, lockVars, callerVars, notifications,
                              subVars, clock,
                              inserts, appends>>
    /\ UNCHANGED <<messageChan, procFrame>>

\* Lines 279-309: the notification of the next action item.
ProcItemNotify(ok) ==
    /\ Alive
    /\ proc.pc = "items"
    /\ proc.idx < Len(Deref(proc.result).ActionItems)
    /\ hist' = [hist EXCEPT
                  !.calls = Append(@, Called("notify", Deref(proc.msg).ID,
                                      Deref(proc.result).ActionItems[proc.idx + 1], ok))]
    /\ IF ok
          THEN /\ AddNotificationLocked(
                    [Message |-> proc.msg, Reason |-> "action_item", SentAt |-> clock])
               /\ clock' = clock + 1
               /\ proc' = AfterItemNotify(
                    [proc EXCEPT !.notifiedAt = IF IsNil(@) THEN Ptr(clock) ELSE @])
          ELSE /\ proc' = AfterItemNotify(proc)
               /\ UNCHANGED <<ringVars, listeners, lockVars, callerVars, notifications,
                              subVars, clock,
                              inserts, appends>>
    /\ UNCHANGED <<messageChan, procFrame>>

\* Lines 312-320: the calendar event of that action item, when cal != nil.
ProcItemCalendar(ok) ==
    /\ Alive
    /\ proc.pc = "calendar"
    /\ hist' = [hist EXCEPT
                  !.calls = Append(@, Called("calendar", Deref(proc.msg).ID,
                                      Deref(proc.result).ActionItems[proc.idx + 1], ok))]
    /\ proc' = [proc EXCEPT !.pc = "items", !.idx = @ + 1,
                            !.eventsCreated = IF ok THEN @ + 1 ELSE @]
    /\ UNCHANGED <<ringVars, listeners, lockVars, callerVars, notifications, subVars,
                   clock, inserts,
                   appends, messageChan, procFrame>>

\* Lines 324-330: the record of a classified Event, up to mu.Unlock.
ProcRecord ==
    /\ Alive
    /\ proc.pc = "items"
    /\ proc.idx = Len(Deref(proc.result).ActionItems)
    /\ AddProcessedMessageLocked(
            PM(proc.msg, proc.result, proc.notifiedAt, proc.eventsCreated, clock))
    /\ clock' = clock + 1
    /\ proc' = AtLoop(proc)
    /\ UNCHANGED <<messageChan, hist, procFrame>>

\* AddProcessedMessage's notifySubscribers, then back to the loop.
ProcNotifySubscribers ==
    /\ Alive
    /\ mainPc # "none"
    /\ AddProcessedMessageNotify

----------------------------------------------------------------------------
(* Spec: the pipeline, from main's registration loop to shutdown *)

MaxListeners == 1       \* listeners configured at once
MaxEvents == 2          \* Events the listeners create

\* What the classifier answers in Spec: urgent, with one action item.
PipeResults == {Cls(TRUE, <<1>>)}

Init ==
    /\ NewStore(MainStoreCapacity)
    /\ proc = ProcIdle
    /\ rd = <<>>
    /\ heap = EmptyMap
    /\ snap = NoSnap
    /\ sse = <<>>
    /\ clock = 1
    /\ inserts = <<>>
    /\ appends = <<>>
    /\ ctx = "live"
    /\ messageChan = [buf |-> <<>>, closed |-> FALSE]
    /\ mainPc = "register"
    /\ \E en \in SUBSET Kinds :
        /\ Cardinality(en) <= MaxListeners
        /\ lst = [l \in en |->
                    [start |-> "starting", conn |-> FALSE, h |-> "none",
                     pending |-> Nil]]
    /\ calCfg \in BOOLEAN
    /\ nextID = 1
    /\ panicked = FALSE
    /\ hist = [sent |-> <<>>, dequeued |-> <<>>, atCancel |-> <<>>, calls |-> <<>>]

Next ==
    \/ MainRegister
    \/ Cancel
    \/ MainWait
    \/ MainClose
    \/ MainWaitProc
    \/ MainStop
    \/ \E l \in Configured : ListenerStartOk(l)
    \/ \E l \in Configured : ListenerStartFail(l)
    \/ \E l \in Configured : ListenerEvent(l, MaxEvents)
    \/ \E l \in Configured : ListenerSend(l)
    \/ \E l \in Configured : ListenerSendClosed(l)
    \/ \E l \in Configured : ListenerReturn(l)
    \/ SlackHandlerExit
    \/ ProcSelectDone
    \/ ProcReceive
    \/ ProcReturn
    \/ ProcClassifyFail
    \/ \E r \in PipeResults : ProcClassifyOk(r)
    \/ \E ok \in BOOLEAN : ProcUrgent(ok)
    \/ \E ok \in BOOLEAN : ProcItemNotify(ok)
    \/ \E ok \in BOOLEAN : ProcItemCalendar(ok)
    \/ ProcRecord
    \/ ProcNotifySubscribers

Spec == Init /\ [][Next]_vars

----------------------------------------------------------------------------
(* SpecFair: the pipeline of Spec under fair scheduling of main, the processor
   and the listeners' sends; signals and the return of Start are left free *)

\* Every step of processMessages and handleMessage in Spec.
PipeProcStep ==
    \/ ProcSelectDone
    \/ ProcReceive
    \/ ProcReturn
    \/ ProcClassifyFail
    \/ \E r \in PipeResults : ProcClassifyOk(r)
    \/ \E ok \in BOOLEAN : ProcUrgent(ok)
    \/ \E ok \in BOOLEAN : ProcItemNotify(ok)
    \/ \E ok \in BOOLEAN : ProcItemCalendar(ok)
    \/ ProcRecord
    \/ ProcNotifySubscribers

\* main always takes its next step, every call of the processor returns, and
\* a send proceeds when the queue has room.
FairPipeline ==
    /\ WF_vars(MainRegister \/ MainStep)
    /\ WF_vars(PipeProcStep)
    /\ \A l \in Kinds : WF_vars(l \in Configured /\ ListenerSend(l))

SpecFair == Init /\ [][Next]_vars /\ FairPipeline

----------------------------------------------------------------------------
(* SpecProc: processMessages on a closed queue, every outcome of handleMessage *)

MaxProcEvents == 2      \* Events waiting in the queue
MaxItems == 1           \* action items of one classification

ItemSeqs == {[i \in 1..k |-> i] : k \in 0..MaxItems}

Results == {Cls(u, items) : u \in BOOLEAN, items \in ItemSeqs}

\* Listeners whose Start can return while the context is live.
ProcSources == {"telegram", "slack"}

\* The listener has returned after sending n Events, main has closed the queue
\* and waits for the processor, which has not yet received anything.
InitProc ==
    /\ \E src \in ProcSources, n \in 1..MaxProcEvents :
        /\ lst = [l \in {src} |->
                    [start |-> "returned", conn |-> FALSE, h |-> "idle",
                     pending |-> Nil]]
        /\ messageChan = [buf |-> [i \in 1..n |-> Msg(i, src)], closed |-> TRUE]
        /\ nextID = n + 1
    /\ NewRing(MainStoreCapacity)
    /\ listeners = RegisterAll(EmptyMap, DOMAIN lst, 1)
    /\ proc = ProcIdle
    /\ rd = <<>>
    /\ heap = EmptyMap
    /\ snap = NoSnap
    /\ sse = <<>>
    /\ clock = 1
    /\ inserts = <<>>
    /\ appends = <<>>
    /\ ctx = "live"
    /\ mainPc = "waitProc"
    /\ calCfg \in BOOLEAN
    /\ panicked = FALSE
    /\ hist = [sent |-> messageChan.buf, dequeued |-> <<>>, atCancel |-> <<>>,
               calls |-> <<>>]

NextProc ==
    \/ Cancel
    \/ MainWaitProc
    \/ MainStop
    \/ ProcSelectDone
    \/ ProcReceive
    \/ ProcReturn
    \/ ProcClassifyFail
    \/ \E r \in Results : ProcClassifyOk(r)
    \/ \E ok \in BOOLEAN : ProcUrgent(ok)
    \/ \E ok \in BOOLEAN : ProcItemNotify(ok)
    \/ \E ok \in BOOLEAN : ProcItemCalendar(ok)
    \/ ProcRecord
    \/ ProcNotifySubscribers

SpecProc == InitProc /\ [][NextProc]_vars


----------------------------------------------------------------------------
(* SpecUnsub: SSE handlers subscribe and unsubscribe while AddProcessedMessage
   broadcasts, notifySubscribers taken one send at a time under ssemu *)

MaxUnsubInserts == 2    \* calls of AddProcessedMessage

unsubFrame == <<ringVars, listeners, mu, rd, callerVars, notifications, subscribers,
                clock, inserts,
                appends, ctx, messageChan, mainPc, lst, calCfg, nextID, hist>>

notifySubscribersLock_Early ==
    /\ proc.pc \in {"messages", "notifySubscribers"}
    /\ CanLock(ssemu)
    /\ ssemu' = [ssemu EXCEPT !.writer = TRUE]
    /\ proc' = [proc EXCEPT !.pc = "range", !.todo = subscribers]
    /\ lastBroadcast' = [delivered |-> {}, skipped |-> {}]
    /\ UNCHANGED <<chans, panicked, unsubFrame>>

\* Line 302: s.ssemu.Lock(); the range of line 305 then walks the map as it is.
notifySubscribersLock ==
    /\ proc.pc = "notifySubscribers"
    /\ CanLock(ssemu)
    /\ ssemu' = [ssemu EXCEPT !.writer = TRUE]
    /\ proc' = [proc EXCEPT !.pc = "range", !.todo = subscribers]
    /\ lastBroadcast' = [delivered |-> {}, skipped |-> {}]
    /\ UNCHANGED <<chans, panicked, unsubFrame>>

\* Lines 305-311: the select for one channel of the range, in any order.  A
\* send on a closed channel panics, whatever the default case.
notifySubscribersSend(ch) ==
    /\ proc.pc = "range"
    /\ ch \in proc.todo
    /\ proc' = [proc EXCEPT !.todo = @ \ {ch}]
    /\ IF chans[ch].closed
         THEN /\ panicked' = TRUE
              /\ UNCHANGED <<chans, lastBroadcast>>
         ELSE /\ chans' = [chans EXCEPT ![ch] = TrySend(ch, {ch})]
              /\ lastBroadcast' =
                   IF chans'[ch].buf = chans[ch].buf + 1
                     THEN [lastBroadcast EXCEPT !.delivered = @ \cup {ch}]
                     ELSE [lastBroadcast EXCEPT !.skipped = @ \cup {ch}]
              /\ UNCHANGED panicked
    /\ UNCHANGED <<ssemu, unsubFrame>>

\* Line 303: the deferred s.ssemu.Unlock(), and the return of AddProcessedMessage.
notifySubscribersUnlock ==
    /\ proc.pc = "range"
    /\ proc.todo = {}
    /\ ssemu' = Unlocked
    /\ proc' = [proc EXCEPT !.pc = "idle"]
    /\ UNCHANGED <<chans, lastBroadcast, panicked, unsubFrame>>

UnsubInsert ==
    /\ Len(inserts) < MaxUnsubInserts
    /\ StoreInsert(PM(Ptr(Msg(clock, "slack")), Nil, Nil, 0, clock))

NextUnsub ==
    /\ Alive
    /\ \/ Subscribe
       \/ \E ch \in DOMAIN chans : UnsubscribeDelete(ch)
       \/ \E ch \in DOMAIN chans : UnsubscribeClose(ch)
       \/ \E ch \in DOMAIN chans : Receive(ch)
       \/ UnsubInsert
       \/ notifySubscribersLock
       \/ \E ch \in DOMAIN chans : notifySubscribersSend(ch)
       \/ notifySubscribersUnlock

SpecUnsub == InitSSE /\ [][NextUnsub]_vars

----------------------------------------------------------------------------
(* SpecConn: the dashboard's handleSSE goroutines, one per connection, against
   broadcasts taken one send at a time *)

MaxConns == 2           \* SSE connections ever made
MaxConnInserts == 2     \* calls of AddProcessedMessage

connFrame == <<ringVars, listeners, lockVars, heap, snap, notifications, lastBroadcast,
               proc, clock, inserts, appends, ctx, messageChan, mainPc, lst, calCfg,
               nextID, hist>>

\* ch := s.store.Subscribe(); defer s.store.Unsubscribe(ch): the handler holds
\* the channel Subscribe made and is at its loop.
handleSSESubscribe(h) ==
    /\ sse[h].pc = "none"
    /\ CanLock(ssemu)
    /\ chans' = Append(chans, [buf |-> 0, closed |-> FALSE, sent |-> 0,
                               since |-> Broadcasts])
    /\ subscribers' = subscribers \cup {Len(chans) + 1}
    /\ sse' = [sse EXCEPT ![h] = [pc |-> "loop", ch |-> Len(chans) + 1]]
    /\ UNCHANGED <<panicked, connFrame>>

\* case event, ok := <-ch with ok: the token is written to the response.
handleSSEReceive(h) ==
    /\ sse[h].pc = "loop"
    /\ chans[sse[h].ch].buf > 0
    /\ chans' = [chans EXCEPT ![sse[h].ch].buf = @ - 1]
    /\ UNCHANGED <<subscribers, sse, panicked, connFrame>>

\* case <-ctx.Done(), or !ok: return, which runs the deferred Unsubscribe.
handleSSEReturn(h) ==
    /\ sse[h].pc = "loop"
    /\ sse' = [sse EXCEPT ![h].pc = "Unsubscribe"]
    /\ UNCHANGED <<subscribers, chans, panicked, connFrame>>

\* Unsubscribe, lines 293-295: delete(s.subscribers, ch) under ssemu, which
\* does nothing for a channel that is not in the map.
UnsubscribeLocked(ch) ==
    /\ CanLock(ssemu)
    /\ subscribers' = subscribers \ {ch}

\* Unsubscribe, line 296: close(ch) panics on a channel that is closed.
UnsubscribeCloseChan(ch) ==
    IF chans[ch].closed
        THEN /\ panicked' = TRUE
             /\ UNCHANGED chans
        ELSE /\ chans' = [chans EXCEPT ![ch].closed = TRUE]
             /\ UNCHANGED panicked

handleSSEUnsubscribe(h) ==
    /\ sse[h].pc = "Unsubscribe"
    /\ UnsubscribeLocked(sse[h].ch)
    /\ sse' = [sse EXCEPT ![h].pc = "close"]
    /\ UNCHANGED <<chans, panicked, connFrame>>

handleSSEClose_Again(h) ==
    /\ sse[h].pc = "close"
    /\ UnsubscribeCloseChan(sse[h].ch)
    /\ sse' = [sse EXCEPT ![h].pc = IF chans[sse[h].ch].closed THEN "returned"
                                     ELSE "Unsubscribe"]
    /\ UNCHANGED <<subscribers, connFrame>>

\* The close of the deferred Unsubscribe, and the handler is gone.
handleSSEClose(h) ==
    /\ sse[h].pc = "close"
    /\ UnsubscribeCloseChan(sse[h].ch)
    /\ sse' = [sse EXCEPT ![h].pc = "returned"]
    /\ UNCHANGED <<subscribers, connFrame>>

ConnInsert ==
    /\ Len(inserts) < MaxConnInserts
    /\ StoreInsert(PM(Ptr(Msg(clock, "slack")), Nil, Nil, 0, clock))

InitConn ==
    /\ NewStore(1)
    /\ proc = ProcIdle
    /\ rd = <<>>
    /\ heap = EmptyMap
    /\ snap = NoSnap
    /\ sse = [h \in 1..MaxConns |-> [pc |-> "none", ch |-> 0]]
    /\ clock = 1
    /\ inserts = <<>>
    /\ appends = <<>>
    /\ PipeIdle

NextConn ==
    /\ Alive
    /\ \/ \E h \in DOMAIN sse : handleSSESubscribe(h)
       \/ \E h \in DOMAIN sse : handleSSEReceive(h)
       \/ \E h \in DOMAIN sse : handleSSEReturn(h)
       \/ \E h \in DOMAIN sse : handleSSEUnsubscribe(h)
       \/ \E h \in DOMAIN sse : handleSSEClose(h)
       \/ ConnInsert
       \/ notifySubscribersLock
       \/ \E ch \in DOMAIN chans : notifySubscribersSend(ch)
       \/ notifySubscribersUnlock

SpecConn == InitConn /\ [][NextConn]_vars

----------------------------------------------------------------------------
(* SpecLock: AddProcessedMessage statement by statement under mu, and readers *)

MaxLockCapacity == 2    \* ring capacities
MaxLockInserts == 3     \* calls of AddProcessedMessage
MaxReaders == 2         \* goroutines reading at once

\* mu.RLock() returns when no writer holds mu.
CanRLock_IgnoreWriter(m) == TRUE

CanRLock(m) == ~m.writer

lockFrame == <<capacity, listeners, notifications, subVars, appends, ssemu, callerVars,
              pipeVars>>

\* Line 94: the call and mu.Lock().
WLock(pm) ==
    /\ proc.pc = "idle"
    /\ CanLock(mu)
    /\ mu' = [mu EXCEPT !.writer = TRUE]
    /\ proc' = [proc EXCEPT !.pc = "messages", !.pm = Ptr(pm)]
    /\ inserts' = Append(inserts, pm)
    /\ clock' = clock + 1
    /\ UNCHANGED <<messages, writeIdx, count, stats, rd, lockFrame>>

\* Line 97: s.messages[s.writeIdx] = pm.
WSlot ==
    /\ proc.pc = "messages"
    /\ messages' = [messages EXCEPT ![writeIdx] = Deref(proc.pm)]
    /\ proc' = [proc EXCEPT !.pc = "writeIdx"]
    /\ UNCHANGED <<writeIdx, count, stats, mu, rd, inserts, clock, lockFrame>>

\* Line 98: s.writeIdx = (s.writeIdx + 1) % s.capacity.
WWriteIdx ==
    /\ proc.pc = "writeIdx"
    /\ writeIdx' = NextWriteIdx(writeIdx, capacity)
    /\ proc' = [proc EXCEPT !.pc = "count"]
    /\ UNCHANGED <<messages, count, stats, mu, rd, inserts, clock, lockFrame>>

WCount_ThenUnlock ==
    /\ proc.pc = "count"
    /\ count' = NextCount(count, capacity)
    /\ mu' = [mu EXCEPT !.writer = FALSE]
    /\ proc' = [proc EXCEPT !.pc = "TotalMessages"]
    /\ UNCHANGED <<messages, writeIdx, stats, rd, inserts, clock, lockFrame>>

\* Lines 99-101: s.count++ below the capacity.
WCount ==
    /\ proc.pc = "count"
    /\ count' = NextCount(count, capacity)
    /\ proc' = [proc EXCEPT !.pc = "TotalMessages"]
    /\ UNCHANGED <<messages, writeIdx, stats, mu, rd, inserts, clock, lockFrame>>

\* Line 104: s.stats.TotalMessages++.
WTotal ==
    /\ proc.pc = "TotalMessages"
    /\ stats' = [stats EXCEPT !.TotalMessages = @ + 1]
    /\ proc' = [proc EXCEPT !.pc = "stats"]
    /\ UNCHANGED <<messages, writeIdx, count, mu, rd, inserts, clock, lockFrame>>

\* Lines 105-117: the other counters.
WStats ==
    /\ proc.pc = "stats"
    /\ stats' = [UpdateStats(stats, Deref(proc.pm))
                    EXCEPT !.TotalMessages = stats.TotalMessages]
    /\ proc' = [proc EXCEPT !.pc = "mu.Unlock"]
    /\ UNCHANGED <<messages, writeIdx, count, mu, rd, inserts, clock, lockFrame>>

WUnlock_Late ==
    /\ proc.pc = "mu.Unlock"
    /\ proc' = [proc EXCEPT !.pc = "notifySubscribers", !.pm = Nil]
    /\ UNCHANGED <<messages, writeIdx, count, stats, mu, rd, inserts, clock, lockFrame>>

\* Line 119: s.mu.Unlock().
WUnlock ==
    /\ proc.pc = "mu.Unlock"
    /\ mu' = [mu EXCEPT !.writer = FALSE]
    /\ proc' = [proc EXCEPT !.pc = "notifySubscribers", !.pm = Nil]
    /\ UNCHANGED <<messages, writeIdx, count, stats, rd, inserts, clock, lockFrame>>

\* s.mu.RLock() of GetRecentMessages, GetRecentMessagesBySource, GetActionItems
\* or GetStats: reader r is inside, reading the fields.
ReaderRLock(r) ==
    /\ rd[r] = "idle"
    /\ CanRLock(mu)
    /\ mu' = [mu EXCEPT !.readers = @ + 1]
    /\ rd' = [rd EXCEPT ![r] = "reading"]
    /\ UNCHANGED <<messages, writeIdx, count, stats, proc, inserts, clock, lockFrame>>

\* The deferred s.mu.RUnlock(): the read has returned.
ReaderRUnlock(r) ==
    /\ rd[r] = "reading"
    /\ mu' = [mu EXCEPT !.readers = @ - 1]
    /\ rd' = [rd EXCEPT ![r] = "idle"]
    /\ UNCHANGED <<messages, writeIdx, count, stats, proc, inserts, clock, lockFrame>>

LockInputs(t) ==
    {PM(Ptr(Msg(t, "slack")), Nil, Nil, 0, t),
     PM(Ptr(Msg(t, "gmail")), Ptr(Cls(TRUE, <<1, 2>>)), Ptr(t), 1, t)}

InitLock ==
    /\ \E c \in 1..MaxLockCapacity : NewStore(c)
    /\ proc = ProcIdle
    /\ rd = [r \in 1..MaxReaders |-> "idle"]
    /\ heap = EmptyMap
    /\ snap = NoSnap
    /\ sse = <<>>
    /\ clock = 1
    /\ inserts = <<>>
    /\ appends = <<>>
    /\ PipeIdle

NextLock ==
    \/ \E pm \in LockInputs(clock) : Len(inserts) < MaxLockInserts /\ WLock(pm)
    \/ WSlot
    \/ WWriteIdx
    \/ WCount
    \/ WTotal
    \/ WStats
    \/ WUnlock
    \/ AddProcessedMessageNotify
    \/ \E r \in DOMAIN rd : ReaderRLock(r)
    \/ \E r \in DOMAIN rd : ReaderRUnlock(r)

SpecLock == InitLock /\ [][NextLock]_vars

----------------------------------------------------------------------------
(* SpecLocks: both locks of the Store at once: AddProcessedMessage statement
   by statement under mu and then under ssemu, readers of the buffer, and
   handlers that subscribe and unsubscribe *)

MaxLocksInserts == 2    \* calls of AddProcessedMessage

\* The statements of AddProcessedMessage that run with mu held, and those of
\* notifySubscribers that run with ssemu held.
WriterUnderMu == WSlot \/ WWriteIdx \/ WCount \/ WTotal \/ WStats \/ WUnlock

WriterUnderSsemu ==
    \/ \E ch \in DOMAIN chans : notifySubscribersSend(ch)
    \/ notifySubscribersUnlock

InitLocks ==
    /\ \E c \in 1..MaxLockCapacity : NewStore(c)
    /\ proc = ProcIdle
    /\ rd = [r \in 1..MaxReaders |-> "idle"]
    /\ heap = EmptyMap
    /\ snap = NoSnap
    /\ sse = <<>>
    /\ clock = 1
    /\ inserts = <<>>
    /\ appends = <<>>
    /\ PipeIdle

NextLocks ==
    /\ Alive
    /\ \/ \E pm \in LockInputs(clock) : Len(inserts) < MaxLocksInserts /\ WLock(pm)
       \/ WSlot
       \/ WWriteIdx
       \/ WCount
       \/ WTotal
       \/ WStats
       \/ WUnlock
       \/ notifySubscribersLock
       \/ \E ch \in DOMAIN chans : notifySubscribersSend(ch)
       \/ notifySubscribersUnlock
       \/ \E r \in DOMAIN rd : ReaderRLock(r)
       \/ \E r \in DOMAIN rd : ReaderRUnlock(r)
       \/ Subscribe
       \/ \E ch \in DOMAIN chans : UnsubscribeDelete(ch)
       \/ \E ch \in DOMAIN chans : UnsubscribeClose(ch)
       \/ \E ch \in DOMAIN chans : Receive(ch)

SpecLocks == InitLocks /\ [][NextLocks]_vars

----------------------------------------------------------------------------
(* SpecQueue: two producers at once, the queue, the processor and shutdown *)

MaxQueueEvents == 3     \* Events the two listeners create between them

\* The classifier in SpecQueue: it always answers, not urgent, nothing to do.
QueueResults == {Cls(FALSE, <<>>)}

\* Each pair has a listener that sends inside Start and one that does not.
ProducerPairs == {{"telegram", "slack"}, {"gmail", "whatsapp"}}

\* Both listeners are past their setup and main waits for them.
InitQueue ==
    /\ \E en \in ProducerPairs :
        lst = [l \in en |->
                [start |-> "running", conn |-> (l = "whatsapp"), h |-> "idle",
                 pending |-> Nil]]
    /\ NewRing(MainStoreCapacity)
    /\ listeners = RegisterAll(EmptyMap, DOMAIN lst, 1)
    /\ proc = ProcIdle
    /\ rd = <<>>
    /\ heap = EmptyMap
    /\ snap = NoSnap
    /\ sse = <<>>
    /\ clock = 1
    /\ inserts = <<>>
    /\ appends = <<>>
    /\ ctx = "live"
    /\ messageChan = [buf |-> <<>>, closed |-> FALSE]
    /\ mainPc = "wait"
    /\ calCfg = FALSE
    /\ nextID = 1
    /\ panicked = FALSE
    /\ hist = [sent |-> <<>>, dequeued |-> <<>>, atCancel |-> <<>>, calls |-> <<>>]

NextQueue ==
    \/ Cancel
    \/ MainWait
    \/ MainClose
    \/ MainWaitProc
    \/ MainStop
    \/ \E l \in Configured : ListenerEvent(l, MaxQueueEvents)
    \/ \E l \in Configured : ListenerSend(l)
    \/ \E l \in Configured : ListenerSendClosed(l)
    \/ \E l \in Configured : ListenerReturn(l)
    \/ SlackHandlerExit
    \/ ProcSelectDone
    \/ ProcReceive
    \/ ProcReturn
    \/ \E r \in QueueResults : ProcClassifyOk(r)
    \/ ProcRecord
    \/ ProcNotifySubscribers

SpecQueue == InitQueue /\ [][NextQueue]_vars

----------------------------------------------------------------------------
(* SpecFull: one producer outrunning the processor until the queue is full *)

MaxFullEvents == 101    \* Events the listener creates: one more than the queue holds

\* Gmail is polling and main waits for it.
InitFull ==
    /\ lst = [l \in {"gmail"} |->
                [start |-> "running", conn |-> FALSE, h |-> "idle", pending |-> Nil]]
    /\ NewRing(MainStoreCapacity)
    /\ listeners = RegisterAll(EmptyMap, DOMAIN lst, 1)
    /\ proc = ProcIdle
    /\ rd = <<>>
    /\ heap = EmptyMap
    /\ snap = NoSnap
    /\ sse = <<>>
    /\ clock = 1
    /\ inserts = <<>>
    /\ appends = <<>>
    /\ ctx = "live"
    /\ messageChan = [buf |-> <<>>, closed |-> FALSE]
    /\ mainPc = "wait"
    /\ calCfg = FALSE
    /\ nextID = 1
    /\ panicked = FALSE
    /\ hist = [sent |-> <<>>, dequeued |-> <<>>, atCancel |-> <<>>, calls |-> <<>>]

NextFull ==
    \/ \E l \in Configured : ListenerEvent(l, MaxFullEvents)
    \/ \E l \in Configured : ListenerSend(l)
    \/ ProcReceive
    \/ \E r \in QueueResults : ProcClassifyOk(r)
    \/ ProcRecord
    \/ ProcNotifySubscribers

SpecFull == InitFull /\ [][NextFull]_vars

----------------------------------------------------------------------------
(* SpecHonour: processMessages as in SpecProc, with the classifier that calls
   the model: a call made with a cancelled context returns the error *)

\* callOpenAI with the context ignored.
ClassifyWithContext_Ignored(r) == ProcClassifyOk(r)

\* callOpenAI, lines 112-127: Completions.New(ctx, ...) answers only when the
\* context it is given is live; any call may fail.
ClassifyWithContext(r) ==
    /\ Deref(Handed("classify")) = "live"
    /\ ProcClassifyOk(r)

NextHonour ==
    \/ Cancel
    \/ MainWaitProc
    \/ MainStop
    \/ ProcSelectDone
    \/ ProcReceive
    \/ ProcReturn
    \/ ProcClassifyFail
    \/ \E r \in Results : ClassifyWithContext(r)
    \/ \E ok \in BOOLEAN : ProcUrgent(ok)
    \/ \E ok \in BOOLEAN : ProcItemNotify(ok)
    \/ \E ok \in BOOLEAN : ProcItemCalendar(ok)
    \/ ProcRecord
    \/ ProcNotifySubscribers

SpecHonour == InitProc /\ [][NextHonour]_vars

----------------------------------------------------------------------------
(* SpecShutdown: from a cancellation that finds a producer blocked on the full
   queue, under fair scheduling of main, the processor and the listener *)

MaxShutdownEvents == 102    \* Events ever created: the queue, the blocked one, one more

\* The signal goroutine has just called cancel(): the queue holds QueueCap
\* Events, the listener's handler is at its send with one more, the processor
\* is at its select and main waits for Start to return.
InitShutdown ==
    /\ \E l \in Kinds :
        /\ lst = [k \in {l} |->
                    [start |-> "running", conn |-> (k = "whatsapp"), h |-> "sending",
                     pending |-> Ptr(Msg(QueueCap + 1, k))]]
        /\ messageChan = [buf |-> [i \in 1..QueueCap |-> Msg(i, l)], closed |-> FALSE]
    /\ NewRing(MainStoreCapacity)
    /\ listeners = RegisterAll(EmptyMap, DOMAIN lst, 1)
    /\ proc = ProcIdle
    /\ rd = <<>>
    /\ heap = EmptyMap
    /\ snap = NoSnap
    /\ sse = <<>>
    /\ clock = 1
    /\ inserts = <<>>
    /\ appends = <<>>
    /\ ctx = "done"
    /\ mainPc = "wait"
    /\ calCfg = FALSE
    /\ nextID = QueueCap + 2
    /\ panicked = FALSE
    /\ hist = [sent |-> messageChan.buf, dequeued |-> <<>>, atCancel |-> messageChan.buf,
               calls |-> <<>>]

\* processMessages with handleMessage, for a classifier that always answers.
ProcStep ==
    \/ ProcSelectDone
    \/ ProcReceive
    \/ ProcReturn
    \/ \E r \in QueueResults : ProcClassifyOk(r)
    \/ ProcRecord
    \/ ProcNotifySubscribers

NextShutdown ==
    \/ MainStep
    \/ ProcStep
    \/ \E l \in Configured : ListenerEvent(l, MaxShutdownEvents)
    \/ \E l \in Configured : ListenerSend(l)
    \/ \E l \in Configured : ListenerSendClosed(l)
    \/ \E l \in Configured : ListenerReturn(l)
    \/ SlackHandlerExit

\* Every goroutine that can run does run: main and the processor take their
\* next step (each classifier call returns), a send proceeds when the queue has
\* room, and Start returns once it can.
FairShutdown ==
    /\ WF_vars(MainStep)
    /\ WF_vars(ProcStep)
    /\ \A l \in Kinds : WF_vars(l \in Configured /\ ListenerSend(l))
    /\ \A l \in Kinds : WF_vars(l \in Configured /\ ListenerReturn(l))

SpecShutdown == InitShutdown /\ [][NextShutdown]_vars /\ FairShutdown

----------------------------------------------------------------------------
(* SpecItems: handleMessage on one Event with several action items *)

MaxLongItems == 3       \* action items of one classification

ItemResults == {Cls(u, [i \in 1..k |-> i]) : u \in BOOLEAN, k \in 0..MaxLongItems}

\* As InitProc, with one Event in the queue.
InitItems ==
    /\ lst = [l \in {"telegram"} |->
                [start |-> "returned", conn |-> FALSE, h |-> "idle", pending |-> Nil]]
    /\ messageChan = [buf |-> <<Msg(1, "telegram")>>, closed |-> TRUE]
    /\ nextID = 2
    /\ NewRing(MainStoreCapacity)
    /\ listeners = RegisterAll(EmptyMap, DOMAIN lst, 1)
    /\ proc = ProcIdle
    /\ rd = <<>>
    /\ heap = EmptyMap
    /\ snap = NoSnap
    /\ sse = <<>>
    /\ clock = 1
    /\ inserts = <<>>
    /\ appends = <<>>
    /\ ctx = "live"
    /\ mainPc = "waitProc"
    /\ calCfg \in BOOLEAN
    /\ panicked = FALSE
    /\ hist = [sent |-> messageChan.buf, dequeued |-> <<>>, atCancel |-> <<>>,
               calls |-> <<>>]

NextItems ==
    \/ Cancel
    \/ MainWaitProc
    \/ MainStop
    \/ ProcSelectDone
    \/ ProcReceive
    \/ ProcReturn
    \/ ProcClassifyFail
    \/ \E r \in ItemResults : ProcClassifyOk(r)
    \/ \E ok \in BOOLEAN : ProcUrgent(ok)
    \/ \E ok \in BOOLEAN : ProcItemNotify(ok)
    \/ \E ok \in BOOLEAN : ProcItemCalendar(ok)
    \/ ProcRecord
    \/ ProcNotifySubscribers

SpecItems == InitItems /\ [][NextItems]_vars

----------------------------------------------------------------------------
(* The classifier: ClassifyMessage, parseJSONResponse and the two fallbacks *)

\* A datetime text, cut at the places time.RFC3339 ("2006-01-02T15:04:05Z07:00")
\* cuts it: the date, the separator, the time of day, the zone.  <<>> is "".
DayOf == [d \in {"2025-03-15", "2025-03-16"} |-> IF d = "2025-03-15" THEN 1 ELSE 2]
MinuteOf == [t \in {"14:00:00", "16:00:00"} |-> IF t = "14:00:00" THEN 840 ELSE 960]
OffsetOf == [z \in {"Z", "+02:00"} |-> IF z = "Z" THEN 0 ELSE 120]

\* The zero time.Time, what ActionItem.DateTime holds when nothing is assigned.
ZeroTime == 0

\* time.Parse(time.RFC3339, s): the instant, in minutes, or an error.
ParseRFC3339(s) ==
    IF /\ Len(s) = 4
       /\ s[1] \in DOMAIN DayOf
       /\ s[2] = "T"
       /\ s[3] \in DOMAIN MinuteOf
       /\ s[4] \in DOMAIN OffsetOf
      THEN [err |-> FALSE, t |-> DayOf[s[1]] * 1440 + MinuteOf[s[3]] - OffsetOf[s[4]]]
      ELSE [err |-> TRUE, t |-> ZeroTime]

DefaultDuration_NegativeOnly(d) == IF d < 0 THEN 30 ELSE d

\* Lines 183-185.
DefaultDuration(d) == IF d <= 0 THEN 30 ELSE d

\* Lines 178-182, 186-198: the ActionItem an llmActionItem becomes.
ToActionItem(item) ==
    [Title |-> item.Title,
     DateTime |-> ParseRFC3339(item.Datetime).t,
     DurationMinutes |-> DefaultDuration(item.DurationMinutes)]

SkipItem_OnlyMissing(item) == item.Datetime = <<>>

\* Lines 186-198: the two continue statements.
SkipItem(item) == item.Datetime = <<>> \/ ParseRFC3339(item.Datetime).err

\* Lines 177-200: the loop over resp.ActionItems.
RECURSIVE parseItems(_)
parseItems(items) ==
    IF items = <<>> THEN <<>>
    ELSE IF SkipItem(Head(items)) THEN parseItems(Tail(items))
    ELSE <<ToActionItem(Head(items))>> \o parseItems(Tail(items))

\* parseJSONResponse: content is JSON of the shape of llmResponse, or it is not.
parseJSONResponse(content) ==
    IF content.kind = "json"
      THEN [err |-> FALSE,
            result |-> Cls(content.resp.Urgent, parseItems(content.resp.ActionItems))]
      ELSE [err |-> TRUE, result |-> Cls(FALSE, <<>>)]

\* strings.Contains(strings.ToUpper(text), w) for the texts explored.
Contains(text, w) ==
    CASE w = "URGENT" -> text \in {"urgent", "Not_Urgent", "this is URGENT"}
      [] w = "NOT_URGENT" -> text \in {"Not_Urgent"}

fallbackStringMatch(content) ==
    Cls(Contains(content.text, "URGENT") /\ ~Contains(content.text, "NOT_URGENT"), <<>>)

\* keywordClassify: content.keyword is whether the text holds an urgent keyword.
keywordClassify(content) == Cls(content.keyword, <<>>)

\* ClassifyMessage when it returns a result: without an LLM the keywords decide,
\* with one the response content is parsed, or matched if it is not JSON.
ClassifyMessage(content) ==
    IF content.kind = "message" THEN keywordClassify(content)
    ELSE IF parseJSONResponse(content).err THEN fallbackStringMatch(content)
    ELSE parseJSONResponse(content).result

\* ClassifyMessage succeeds on content, lines 241, 254-255 of main.
ProcClassifyContent(content) ==
    /\ Alive
    /\ proc.pc = "classify"
    /\ hist' = [hist EXCEPT
                  !.calls = Append(@, Called("classify", Deref(proc.msg).ID, 0, TRUE))]
    /\ proc' = [proc EXCEPT !.pc = IF ClassifyMessage(content).IsUrgent
                                     THEN "urgent" ELSE "items",
                            !.result = Ptr(ClassifyMessage(content)), !.idx = 0,
                            !.notifiedAt = Nil, !.eventsCreated = 0,
                            !.content = Ptr(content)]
    /\ UNCHANGED <<ringVars, listeners, lockVars, callerVars, notifications, subVars,
                   clock, inserts,
                   appends, messageChan, procFrame>>

----------------------------------------------------------------------------
(* SpecParse: one Event through handleMessage, classified from a response *)

MaxRespItems == 3       \* action items of one response

\* The (datetime, duration_minutes) pairs explored: one datetime of each kind,
\* each duration with a datetime that parses.
RespPairs ==
    {<<<<>>, 45>>, <<<<"tomorrow">>, 0>>, <<<<"2025-03-15">>, 45>>,
     <<<<"2025-03-15", " ", "14:00:00", "Z">>, -5>>,
     <<<<"2025-03-15", "T", "14:00:00", "Z">>, 45>>,
     <<<<"2025-03-15", "T", "14:00:00", "Z">>, 0>>,
     <<<<"2025-03-16", "T", "16:00:00", "+02:00">>, -5>>}

RespItemSeqs ==
    UNION {[1..k -> RespPairs] : k \in 0..MaxRespItems}

Contents ==
    {[kind |-> "json",
      resp |-> [Urgent |-> u,
                ActionItems |-> [i \in DOMAIN ps |->
                                    [Title |-> i, Datetime |-> ps[i][1],
                                     DurationMinutes |-> ps[i][2]]]]] :
        u \in BOOLEAN, ps \in RespItemSeqs}
    \cup {[kind |-> "text", text |-> t] :
            t \in {"urgent", "Not_Urgent", "this is URGENT", "hello"}}
    \cup {[kind |-> "message", keyword |-> k] : k \in BOOLEAN}

InitParse ==
    /\ lst = [l \in {"telegram"} |->
                [start |-> "returned", conn |-> FALSE, h |-> "idle", pending |-> Nil]]
    /\ messageChan = [buf |-> <<Msg(1, "telegram")>>, closed |-> TRUE]
    /\ nextID = 2
    /\ NewRing(MainStoreCapacity)
    /\ listeners = RegisterAll(EmptyMap, DOMAIN lst, 1)
    /\ proc = ProcIdle
    /\ rd = <<>>
    /\ heap = EmptyMap
    /\ snap = NoSnap
    /\ sse = <<>>
    /\ clock = 1
    /\ inserts = <<>>
    /\ appends = <<>>
    /\ ctx = "live"
    /\ mainPc = "waitProc"
    /\ calCfg = FALSE
    /\ panicked = FALSE
    /\ hist = [sent |-> messageChan.buf, dequeued |-> <<>>, atCancel |-> <<>>,
               calls |-> <<>>]

NextParse ==
    \/ ProcReceive
    \/ ProcReturn
    \/ ProcClassifyFail
    \/ \E content \in Contents : ProcClassifyContent(content)
    \/ \E ok \in BOOLEAN : ProcUrgent(ok)
    \/ \E ok \in BOOLEAN : ProcItemNotify(ok)
    \/ ProcRecord
    \/ ProcNotifySubscribers

SpecParse == InitParse /\ [][NextParse]_vars

----------------------------------------------------------------------------
(* Claims about the ring buffer (SpecStore) *)

Range(seq) == {seq[i] : i \in 1..Len(seq)}

\* Limits a reader may pass: none, negative, small, past the capacity.
Limits == (0 - 1)..(MaxCapacity + 2)

\* C1: after n <= capacity inserts, GetRecentMessages(n) is exactly the n
\* inserted records, newest first.
C1_RecentIsReverseInsertion ==
    Len(inserts) <= capacity =>
        GetRecentMessages(Len(inserts)) = Reverse(inserts)

C1_Witness ==
    /\ capacity >= 2
    /\ Len(inserts) = capacity
    /\ GetRecentMessages(Len(inserts))[1] = inserts[Len(inserts)]
    /\ GetRecentMessages(Len(inserts))[capacity] = inserts[1]

\* The records of the oldest Len(inserts) - capacity inserts.
Evicted == Range(SubSeq(inserts, 1, Len(inserts) - capacity))

\* C2: after n > capacity inserts the ring holds exactly the last capacity
\* records: GetRecentMessages(capacity) returns them newest first, and no read
\* operation returns any of the n - capacity oldest.
C2_RingKeepsLastK ==
    Len(inserts) > capacity =>
        LET old == Evicted
            oldTimes == {r.ProcessedAt : r \in old} IN
        /\ GetRecentMessages(capacity) = Reverse(LastN(inserts, capacity))
        /\ \A limit \in Limits :
            /\ Range(GetRecentMessages(limit)) \cap old = {}
            /\ \A src \in Sources :
                Range(GetRecentMessagesBySource(src, limit)) \cap old = {}
            /\ \A a \in Range(GetActionItems(limit)) :
                a.ProcessedAt \notin oldTimes

C2_Witness ==
    /\ capacity >= 2
    /\ Len(inserts) > capacity
    /\ writeIdx >= 1
    /\ GetRecentMessages(capacity)[1] = inserts[Len(inserts)]
    /\ \E old \in Evicted : ~IsNil(old.Classification) /\ ~IsNil(old.Message)

\* C3: GetRecentMessages(limit) returns min(limit, count) records for limit > 0
\* and count records for limit <= 0, count being min(inserts so far, capacity);
\* never more than were inserted, never a slot that was not written.
C3_RecentLength ==
    /\ count = Min(Len(inserts), capacity)
    /\ \A limit \in Limits :
        LET got == GetRecentMessages(limit) IN
        /\ Len(got) = IF limit > 0 THEN Min(limit, count) ELSE count
        /\ Len(got) <= Len(inserts)
        /\ \A r \in Range(got) : r # ZeroPM /\ r \in Range(inserts)

C3_Witness ==
    /\ count >= 1
    /\ count < capacity
    /\ Len(GetRecentMessages(capacity)) = count
    /\ Len(GetRecentMessages(0)) = count
    /\ messages[capacity - 1] = ZeroPM

----------------------------------------------------------------------------
(* Claim about the notification log (SpecLog) *)

\* C4: the log never holds more than 100 entries and is the last min(n, 100)
\* appended entries in append order; after 101 appends it is appends 2..101.
C4_LogKeepsLast100 ==
    /\ Len(notifications) <= 100
    /\ notifications = LastN(appends, Min(Len(appends), 100))
    /\ Len(appends) = 101 => notifications = SubSeq(appends, 2, 101)

C4_Witness ==
    /\ Len(appends) = 101
    /\ Len(notifications) = 100
    /\ notifications[1] = appends[2]
    /\ notifications[100] = appends[101]

----------------------------------------------------------------------------
(* Claim about the statistics (SpecStats) *)

NumWhere(P(_)) == Cardinality({i \in 1..Len(inserts) : P(inserts[i])})

RECURSIVE SumOver(_, _)
SumOver(f(_), seq) ==
    IF seq = <<>> THEN 0 ELSE f(Head(seq)) + SumOver(f, Tail(seq))

IsUrgentPM(pm) == ~IsNil(pm.Classification) /\ Deref(pm.Classification).IsUrgent
IsNotifiedPM(pm) == ~IsNil(pm.NotifiedAt)
NumItemsPM(pm) ==
    IF IsNil(pm.Classification) THEN 0
    ELSE Len(Deref(pm.Classification).ActionItems)
NumEventsPM(pm) == pm.EventsCreated

\* C5: GetStats is the sum of the per-insert deltas over every insert made,
\* overwritten records included.
C5_StatsAreSums ==
    /\ GetStats.TotalMessages = Len(inserts)
    /\ \A s \in Sources :
        GetStats.BySource[s] =
            Cardinality({i \in 1..Len(inserts) :
                ~IsNil(inserts[i].Message) /\ Deref(inserts[i].Message).Source = s})
    /\ GetStats.UrgentMessages = NumWhere(IsUrgentPM)
    /\ GetStats.TotalActionItems = SumOver(NumItemsPM, inserts)
    /\ GetStats.NotificationsSent = NumWhere(IsNotifiedPM)
    /\ GetStats.EventsCreated = SumOver(NumEventsPM, inserts)

C5_Witness ==
    /\ Len(inserts) > capacity
    /\ IsUrgentPM(inserts[1]) /\ IsNotifiedPM(inserts[1])
    /\ NumEventsPM(inserts[1]) = 1
    /\ IsNil(inserts[2].Message) /\ NumItemsPM(inserts[2]) = 2
    /\ ~IsNotifiedPM(inserts[2])
    /\ GetStats.UrgentMessages = 1 /\ GetStats.NotificationsSent = 1
    /\ GetStats.TotalActionItems = 2 /\ GetStats.EventsCreated = 1

----------------------------------------------------------------------------
(* Claim about the broadcast (SpecSSE) *)

IsFull(ch) == chans[ch].buf = 16

\* C6: a subscriber whose mailbox holds 16 tokens never blocks
\* AddProcessedMessage: the broadcast step can always be taken, it leaves a
\* full subscriber as it is (no token, still registered, not closed) and gives
\* every other subscriber one token.
C6_FullSubscriberSkipped ==
    /\ [](proc.pc = "notifySubscribers" => ENABLED AddProcessedMessageNotify)
    /\ [][(proc.pc = "notifySubscribers" /\ proc'.pc = "idle") =>
            \A ch \in subscribers :
                IF IsFull(ch)
                    THEN /\ chans'[ch] = chans[ch]
                         /\ ch \in subscribers'
                         /\ ~chans'[ch].closed
                    ELSE chans'[ch].buf = chans[ch].buf + 1]_vars

C6_Witness ==
    /\ proc.pc = "idle"
    /\ stats.TotalMessages >= 17
    /\ \E full \in lastBroadcast.skipped, other \in lastBroadcast.delivered :
        /\ full \in subscribers /\ IsFull(full) /\ ~chans[full].closed
        /\ other \in subscribers /\ chans[other].buf >= 1

----------------------------------------------------------------------------
(* Claims about shutdown (Spec) *)

\* The positions of the insertion history that hold Event m.
InsertsOf(m) == {i \in 1..Len(inserts) : inserts[i].Message = Ptr(m)}

\* C7: when the context was cancelled with k Events buffered in the queue,
\* then by the time processMessages has returned each of those k Events has
\* been inserted into the Store exactly once, whichever branch of the select the
\* processor took.
C7_CancelDrainsQueue ==
    (ctx = "done" /\ proc.pc = "returned") =>
        \A j \in 1..Len(hist.atCancel) :
            Cardinality(InsertsOf(hist.atCancel[j])) = 1

C7_Witness ==
    /\ ctx = "done"
    /\ proc.pc = "returned"
    /\ proc.draining
    /\ Len(hist.atCancel) = 2
    /\ \A j \in 1..2 : Cardinality(InsertsOf(hist.atCancel[j])) = 1

\* C8: the queue is closed only after the Start of every listener has
\* returned, and no producer (Slack's handleEvents goroutine, a WhatsApp
\* callback before Stop, Telegram, Gmail) ever sends on the queue once it is
\* closed.
C8_NoSendAfterClose ==
    /\ messageChan.closed => \A l \in Configured : lst[l].start = "returned"
    /\ ~panicked
    /\ \A l \in Configured : ~(messageChan.closed /\ lst[l].h = "sending")

----------------------------------------------------------------------------
(* Claims about handleMessage (SpecProc) *)

Handling == proc.pc \in {"classify", "urgent", "items", "calendar"}

CallsFor(id, ops) ==
    {j \in 1..Len(hist.calls) : hist.calls[j].id = id /\ hist.calls[j].op \in ops}

FailedCalls(op) ==
    {j \in 1..Len(hist.calls) : hist.calls[j].op = op /\ ~hist.calls[j].ok}

\* C9: handleMessage calls AddProcessedMessage exactly once for its Event on
\* every path (classification failure, notifier failure, calendar failure, full
\* success), so that TotalMessages is the number of Events dequeued and handled,
\* and a slot of the ring changes only by being overwritten whole by an insert.
C9_OneInsertPerEvent ==
    /\ [](/\ stats.TotalMessages = Len(hist.dequeued) - (IF Handling THEN 1 ELSE 0)
          /\ Len(inserts) = stats.TotalMessages
          /\ \A i \in 1..Len(inserts) : inserts[i].Message = Ptr(hist.dequeued[i]))
    /\ [][messages' # messages =>
            /\ inserts' = Append(inserts, messages'[writeIdx])
            /\ messages' = [messages EXCEPT ![writeIdx] = messages'[writeIdx]]]_vars

C9_Witness ==
    /\ proc.pc = "returned"
    /\ Len(hist.dequeued) = 2
    /\ stats.TotalMessages = 2
    /\ FailedCalls("classify") # {}
    /\ FailedCalls("notify") # {}
    /\ FailedCalls("calendar") # {}

\* The step in which ClassifyMessage returns an error.
ClassifyFails ==
    /\ proc.pc = "classify"
    /\ hist'.calls = Append(hist.calls, Called("classify", Deref(proc.msg).ID, 0, FALSE))

\* C10: when classification fails, handleMessage inserts a record with the
\* Event, a null Classification, a null NotifiedAt and EventsCreated 0, calls
\* neither the Notifier nor the calendar for that Event, appends nothing to the
\* notification log, and the processor goes back to its loop for the next Event.
C10_ClassificationFailure ==
    /\ [](\A j \in FailedCalls("classify") :
            LET id == hist.calls[j].id IN
            /\ CallsFor(id, {"notify", "calendar"}) = {}
            /\ \A k \in 1..Len(appends) : Deref(appends[k].Message).ID # id
            /\ \E i \in 1..Len(inserts) :
                /\ Deref(inserts[i].Message).ID = id
                /\ IsNil(inserts[i].Classification)
                /\ IsNil(inserts[i].NotifiedAt)
                /\ inserts[i].EventsCreated = 0
                /\ \A i2 \in 1..Len(inserts) :
                    Deref(inserts[i2].Message).ID = id => i2 = i)
    /\ [][ClassifyFails =>
            /\ inserts' = Append(inserts, PM(proc.msg, Nil, Nil, 0, clock))
            /\ appends' = appends
            /\ notifications' = notifications
            /\ proc'.pc = "notifySubscribers"]_vars
    /\ [](proc.pc = "notifySubscribers" => ENABLED ProcNotifySubscribers)
    /\ [][proc.pc = "notifySubscribers" => proc'.pc \in {"notifySubscribers", "idle"}]_vars

C10_Witness ==
    /\ proc.pc = "idle"
    /\ Len(inserts) = 2
    /\ IsNil(inserts[1].Classification)
    /\ hist.calls[1] = Called("classify", 1, 0, FALSE)
    /\ ~IsNil(inserts[2].Classification)
    /\ notifications # <<>>

----------------------------------------------------------------------------
(* Claims about the queue (SpecQueue) *)

\* The Events of seq that came from listener l, in the order of seq.
OfSource(seq, l) ==
    LET Is(m) == m.Source = l IN SelectSeq(seq, Is)

\* The Events of the insertion history, in insertion order.
InsertedEvents == [i \in 1..Len(inserts) |-> Deref(inserts[i].Message)]

IsPrefix(a, b) == Len(a) <= Len(b) /\ SubSeq(b, 1, Len(a)) = a

\* C11: the Events one producer submitted are inserted into the Store in the
\* order that producer submitted them, whatever the other producer does; no
\* order is promised between the Events of different producers.
C11_PerProducerOrder ==
    \A l \in Configured :
        IsPrefix(OfSource(InsertedEvents, l), OfSource(hist.sent, l))

C11_Witness ==
    /\ Len(inserts) = 3
    /\ \E l \in Configured : Len(OfSource(InsertedEvents, l)) = 2
    /\ InsertedEvents[2].Source # InsertedEvents[3].Source
    /\ InsertedEvents[2].ID > InsertedEvents[3].ID

C13_QueueBounded ==
    /\ [](/\ Len(messageChan.buf) <= 100
          /\ hist.sent = hist.dequeued \o messageChan.buf
          /\ \A l \in Configured :
                (lst[l].h = "sending" /\ Len(messageChan.buf) = 100)
                    => ~ENABLED ListenerSend(l))
    /\ [][Len(messageChan.buf) = 100 =>
            messageChan'.buf \in {messageChan.buf, Tail(messageChan.buf)}]_vars

\* The 101st Event has been sent into a queue that was full before.
C13_Witness ==
    /\ Len(hist.sent) = 101
    /\ Len(messageChan.buf) = 100
    /\ Len(hist.dequeued) = 1

----------------------------------------------------------------------------
(* Claims about the processor's exit (Spec) *)

\* C14: processMessages returns only when the queue is closed and every
\* buffered Event has been handled; neither a failing classifier, notifier or
\* calendar nor the cancellation alone, with the queue still open, makes it
\* return.
C14_ReturnOnlyWhenDrained ==
    /\ [](proc.pc = "returned" =>
            /\ messageChan.closed
            /\ messageChan.buf = <<>>
            /\ hist.dequeued = hist.sent
            /\ Len(inserts) = Len(hist.dequeued))
    /\ [][(proc.pc # "returned" /\ proc'.pc = "returned") =>
            /\ proc.pc = "idle"
            /\ messageChan.closed
            /\ messageChan.buf = <<>>]_vars

\* The processor is still in its loop after the cancellation and after a
\* failure of each component, because the queue is still open.
C14_Witness ==
    /\ ctx = "done"
    /\ ~messageChan.closed
    /\ proc.pc = "idle"
    /\ proc.draining
    /\ FailedCalls("classify") # {}
    /\ FailedCalls("notify") # {}
    /\ FailedCalls("calendar") # {}

----------------------------------------------------------------------------
(* Claims about notifications and calendar events (SpecProc, SpecItems) *)

\* The log entries appended for Event id with the given tag.
EntriesFor(id, reason) ==
    {k \in 1..Len(appends) :
        Deref(appends[k].Message).ID = id /\ appends[k].Reason = reason}

\* The Notifier calls that were given Event id itself.
UrgentCalls(id) ==
    {j \in 1..Len(hist.calls) :
        hist.calls[j].op = "notify" /\ hist.calls[j].id = id /\ hist.calls[j].arg = 0}

IsUrgentRecord(r) == ~IsNil(r.Classification) /\ Deref(r.Classification).IsUrgent

\* C15: for an Event classified urgent the Notifier is called once with the
\* Event; on success exactly one log entry tagged "urgent" for that Event is
\* appended and the record's NotifiedAt is set, on failure none; an urgent
\* Event without action items and with a succeeding Notifier has exactly one log
\* entry; a non-urgent Event has no "urgent" entry.
C15_UrgentNotification ==
    \A i \in 1..Len(inserts) :
        LET r == inserts[i]
            id == Deref(r.Message).ID
        IN  IF IsUrgentRecord(r)
                THEN /\ Cardinality(UrgentCalls(id)) = 1
                     /\ \A j \in UrgentCalls(id) :
                          IF hist.calls[j].ok
                              THEN /\ Cardinality(EntriesFor(id, "urgent")) = 1
                                   /\ \A k \in EntriesFor(id, "urgent") :
                                        /\ appends[k].Message = r.Message
                                        /\ r.NotifiedAt = Ptr(appends[k].SentAt)
                                   /\ Deref(r.Classification).ActionItems = <<>> =>
                                        EntriesFor(id, "action_item") = {}
                              ELSE EntriesFor(id, "urgent") = {}
                ELSE /\ UrgentCalls(id) = {}
                     /\ EntriesFor(id, "urgent") = {}

C15_Witness ==
    /\ Len(inserts) = 2
    /\ IsUrgentRecord(inserts[1])
    /\ Deref(inserts[1].Classification).ActionItems = <<>>
    /\ ~IsNil(inserts[1].NotifiedAt)
    /\ Len(appends) = 1
    /\ appends[1].Reason = "urgent"
    /\ IsUrgentRecord(inserts[2])
    /\ IsNil(inserts[2].NotifiedAt)
    /\ hist.calls[Len(hist.calls)] = Called("notify", 2, 0, FALSE)

\* The calls made for the action items of Event id, in the order they were made.
ItemCalls(id) ==
    LET Is(c) == c.id = id /\ c.arg # 0 IN SelectSeq(hist.calls, Is)

\* The calls handleMessage makes for the first n of the action items: for each
\* item a Notify, followed by a CreateEvent when a creator is configured.
ItemCallsAsExpected(cs, items) ==
    IF calCfg
        THEN \A p \in 1..Len(cs) :
                /\ cs[p].op = (IF p % 2 = 1 THEN "notify" ELSE "calendar")
                /\ cs[p].arg = items[(p + 1) \div 2]
        ELSE \A p \in 1..Len(cs) :
                /\ cs[p].op = "notify"
                /\ cs[p].arg = items[p]

NumOk(cs, op) == Cardinality({p \in 1..Len(cs) : cs[p].op = op /\ cs[p].ok})

\* C16: the action items of a classified Event are handled in classifier
\* order, each by one Notify (a success appends exactly one "action_item" log
\* entry) followed, only when a calendar creator is configured, by one
\* CreateEvent; the record's EventsCreated is the number of successful
\* creations, 0 without a creator.
C16_ActionItemsInOrder ==
    /\ \A i \in 1..Len(inserts) :
        LET r == inserts[i]
            id == Deref(r.Message).ID
            cs == ItemCalls(id)
        IN  IF IsNil(r.Classification)
                THEN cs = <<>> /\ r.EventsCreated = 0
                ELSE LET items == Deref(r.Classification).ActionItems IN
                     /\ Len(cs) = (IF calCfg THEN 2 ELSE 1) * Len(items)
                     /\ ItemCallsAsExpected(cs, items)
                     /\ Cardinality(EntriesFor(id, "action_item")) = NumOk(cs, "notify")
                     /\ r.EventsCreated = NumOk(cs, "calendar")
                     /\ ~calCfg => r.EventsCreated = 0
    /\ proc.pc \in {"items", "calendar"} =>
        LET id == Deref(proc.msg).ID
            items == Deref(proc.result).ActionItems
            cs == ItemCalls(id)
        IN  /\ Len(cs) = (IF calCfg THEN 2 ELSE 1) * proc.idx
                            + (IF proc.pc = "calendar" THEN 1 ELSE 0)
            /\ ItemCallsAsExpected(cs, items)
            /\ proc.eventsCreated = NumOk(cs, "calendar")

C16_Witness ==
    /\ calCfg
    /\ Len(inserts) = 1
    /\ ~IsNil(inserts[1].Classification)
    /\ ~IsUrgentRecord(inserts[1])
    /\ Deref(inserts[1].Classification).ActionItems = <<1, 2, 3>>
    /\ inserts[1].EventsCreated = 2
    /\ Cardinality(EntriesFor(1, "action_item")) = 2
    /\ Len(ItemCalls(1)) = 6

----------------------------------------------------------------------------
(* Claims about the listener statuses (Spec) *)

\* C17: for each Event the processor handles, the status registered for the
\* listener of the Event's origin has its MessageCount incremented by one and
\* its LastMessage set: after n Events from origin s the status of the listener
\* for s shows MessageCount = n.
C17_MessageCountPerOrigin ==
    \A l \in DOMAIN listeners :
        LET n == Len(OfSource(hist.dequeued, l)) IN
        /\ listeners[l].MessageCount = n
        /\ n > 0 => ~IsNil(listeners[l].LastMessage)

----------------------------------------------------------------------------
(* Claims about readers and the writer (SpecLock) *)

LockLimits == (0 - 1)..(MaxLockCapacity + 1)

\* Some reader is inside a read, between mu.RLock and mu.RUnlock.
Reading == \E r \in DOMAIN rd : rd[r] = "reading"

\* The stats after the first k calls of AddProcessedMessage.
RECURSIVE StatsAfter(_)
StatsAfter(k) ==
    IF k = 0 THEN ZeroStats ELSE UpdateStats(StatsAfter(k - 1), inserts[k])

\* What GetActionItems may return for one record.
ItemEntries(pm) ==
    IF IsNil(pm.Classification) THEN {}
    ELSE LET items == Deref(pm.Classification).ActionItems IN
         {[Item |-> items[j], SourceMsg |-> pm.Message,
           EventCreated |-> (j - 1) < pm.EventsCreated,
           ProcessedAt |-> pm.ProcessedAt] : j \in 1..Len(items)}

\* C18: whatever a reader reads while the processor inserts, every record
\* returned by GetRecentMessages, GetRecentMessagesBySource and GetActionItems
\* is, field for field, a record passed to one AddProcessedMessage call, and
\* GetStats is the stats after a whole number of inserts.
C18_NoTornRead ==
    Reading =>
        /\ \A limit \in LockLimits :
            /\ Range(GetRecentMessages(limit)) \subseteq Range(inserts)
            /\ \A src \in Sources :
                Range(GetRecentMessagesBySource(src, limit)) \subseteq Range(inserts)
            /\ Range(GetActionItems(limit)) \subseteq
                    UNION {ItemEntries(pm) : pm \in Range(inserts)}
        /\ \E k \in 0..Len(inserts) : GetStats = StatsAfter(k)

\* Two readers inside at once, a third insert waiting for them at mu.Lock.
C18_Witness ==
    /\ \A r \in DOMAIN rd : rd[r] = "reading"
    /\ mu.readers = 2
    /\ capacity = 2
    /\ Len(inserts) = 2
    /\ GetRecentMessages(0) = <<inserts[2], inserts[1]>>
    /\ GetActionItems(0) # <<>>
    /\ ~ENABLED (\E pm \in LockInputs(clock) : WLock(pm))

\* C19: the stats are updated in the critical section of the ring write: in
\* every state a reader can observe, count = min(TotalMessages, capacity),
\* writeIdx = TotalMessages mod capacity, 0 <= writeIdx < capacity and
\* 0 <= count <= capacity.
C19_StatsMatchRing ==
    Reading =>
        /\ count = Min(stats.TotalMessages, capacity)
        /\ writeIdx = stats.TotalMessages % capacity
        /\ 0 <= writeIdx /\ writeIdx < capacity
        /\ 0 <= count /\ count <= capacity

\* A reader inside after the ring has wrapped.
C19_Witness ==
    /\ Reading
    /\ capacity = 2
    /\ stats.TotalMessages = 3
    /\ count = 2
    /\ writeIdx = 1

----------------------------------------------------------------------------
\* C20: Unsubscribe takes the mailbox out of the broadcast set and then closes
\* it (a closed mailbox is never in the set), and whatever the interleaving of
\* Subscribe, Unsubscribe (once per mailbox) and the broadcasts of
\* AddProcessedMessage, no token is sent on a closed mailbox (the send would
\* panic) and a mailbox whose Unsubscribe has returned, that is a closed one,
\* never gets another token.
C20_UnsubscribeThenClose ==
    /\ [](~panicked)
    /\ [](\A ch \in DOMAIN chans : chans[ch].closed => ch \notin subscribers)
    /\ [][\A ch \in DOMAIN chans :
            chans[ch].closed => chans'[ch].buf <= chans[ch].buf /\ chans'[ch].closed]_vars

\* A broadcast is under way and has delivered a token to one mailbox, while
\* another mailbox, which got a token from an earlier broadcast, has been
\* unsubscribed and closed and is not part of this one.
C20_Witness ==
    /\ proc.pc = "range"
    /\ lastBroadcast.delivered # {}
    /\ \E ch \in DOMAIN chans :
         /\ chans[ch].closed
         /\ chans[ch].buf > 0
         /\ ch \notin proc.todo
         /\ ch \notin lastBroadcast.delivered

----------------------------------------------------------------------------
(* Claim about what a broadcast delivers (SpecDeliver) *)

\* C21: the broadcast of an AddProcessedMessage puts exactly one token in the
\* mailbox of every channel that is registered and holds fewer than 16 tokens
\* at that time, and none in any other; no other step adds a token; a mailbox
\* never holds more than 16 tokens; and the tokens ever sent to a subscriber,
\* hence those it has received, never exceed the broadcasts made since it
\* subscribed.
C21_OneTokenPerBroadcast ==
    /\ [][IF proc.pc = "notifySubscribers" /\ proc'.pc = "idle"
            THEN \A ch \in DOMAIN chans :
                    LET one == IF ch \in subscribers /\ chans[ch].buf < 16
                                 THEN 1 ELSE 0 IN
                    /\ chans'[ch].buf = chans[ch].buf + one
                    /\ chans'[ch].sent = chans[ch].sent + one
            ELSE \A ch \in DOMAIN chans :
                    /\ chans'[ch].buf <= chans[ch].buf
                    /\ chans'[ch].sent = chans[ch].sent]_vars
    /\ [](\A ch \in DOMAIN chans :
            /\ chans[ch].buf <= 16
            /\ chans[ch].sent - chans[ch].buf >= 0
            /\ chans[ch].sent <= Broadcasts - chans[ch].since)

\* The latest broadcast skipped the first subscriber, whose mailbox is full,
\* and reached a second one that subscribed later and has got a token from
\* every broadcast since.
C21_Witness ==
    /\ proc.pc = "idle"
    /\ Len(chans) = 2
    /\ lastBroadcast.skipped = {1} /\ chans[1].buf = 16
    /\ lastBroadcast.delivered = {2}
    /\ chans[2].since > 0
    /\ chans[2].sent = Broadcasts - chans[2].since
    /\ chans[2].buf < chans[2].sent

----------------------------------------------------------------------------
(* Claims about the classifier (SpecParse) *)

\* The datetime texts explored that are RFC 3339, with their instants in minutes.
RFC3339Texts ==
    (<<"2025-03-15", "T", "14:00:00", "Z">> :> 2280) @@
    (<<"2025-03-16", "T", "16:00:00", "+02:00">> :> 3720)

\* The classifications made from the content in proc: the one handleMessage
\* holds and the ones of the stored records.
Classified ==
    (IF IsNil(proc.result) THEN {} ELSE {Deref(proc.result)})
    \cup {Deref(inserts[i].Classification) :
            i \in {j \in 1..Len(inserts) : ~IsNil(inserts[j].Classification)}}
    \cup {Deref(messages[i].Classification) :
            i \in {j \in DOMAIN messages : ~IsNil(messages[j].Classification)}}

\* The items of a response whose datetime is an RFC 3339 text, in their order.
WithDeadline(resp) ==
    SelectSeq(resp.ActionItems, LAMBDA it : it.Datetime \in DOMAIN RFC3339Texts)

\* C22: the action items of a classification made from a JSON response are
\* the items of the response whose datetime is an RFC 3339 text (not empty,
\* not anything else), in the order of the response, each with the instant
\* its datetime denotes; a classification made by the string-match or the
\* keyword fallback has no action items; so no classification, held or
\* stored, has an item without a deadline.
C22_OnlyItemsWithDeadline ==
    ~IsNil(proc.content) =>
        \A r \in Classified :
            LET c == Deref(proc.content) IN
            /\ IF c.kind = "json"
                 THEN LET kept == WithDeadline(c.resp) IN
                      /\ Len(r.ActionItems) = Len(kept)
                      /\ \A i \in 1..Len(kept) :
                            /\ r.ActionItems[i].Title = kept[i].Title
                            /\ r.ActionItems[i].DateTime = RFC3339Texts[kept[i].Datetime]
                 ELSE r.ActionItems = <<>>
            /\ \A i \in 1..Len(r.ActionItems) : r.ActionItems[i].DateTime # ZeroTime

\* A stored record made from a response of three items: the second, whose
\* datetime is not RFC 3339, is gone, the first and third are kept in order.
C22_Witness ==
    /\ Len(inserts) = 1
    /\ ~IsNil(proc.content) /\ ~IsNil(inserts[1].Classification)
    /\ Deref(proc.content).kind = "json"
    /\ Len(Deref(proc.content).resp.ActionItems) = 3
    /\ Deref(proc.content).resp.ActionItems[2].Datetime = <<"tomorrow">>
    /\ Len(Deref(inserts[1].Classification).ActionItems) = 2
    /\ Deref(inserts[1].Classification).ActionItems[1].Title = 1
    /\ Deref(inserts[1].Classification).ActionItems[2].Title = 3

\* The item of the response that an action item was made from.
Supplied(c, ai) == c.resp.ActionItems[ai.Title]

\* C23: every action item made by parseJSONResponse has DurationMinutes > 0:
\* 30 when the response gave a value <= 0 (0 is also what a missing value
\* reads as), the value of the response when that is positive.
C23_DurationPositive ==
    (~IsNil(proc.content) /\ Deref(proc.content).kind = "json") =>
        \A r \in Classified :
            \A i \in 1..Len(r.ActionItems) :
                LET given == Supplied(Deref(proc.content), r.ActionItems[i]).DurationMinutes IN
                /\ r.ActionItems[i].DurationMinutes > 0
                /\ r.ActionItems[i].DurationMinutes = IF given <= 0 THEN 30 ELSE given

\* A classification with three items, made from the durations 0, -5 and 45.
C23_Witness ==
    /\ ~IsNil(proc.content) /\ ~IsNil(proc.result)
    /\ Deref(proc.content).kind = "json"
    /\ Len(Deref(proc.result).ActionItems) = 3
    /\ Deref(proc.content).resp.ActionItems[1].DurationMinutes = 0
    /\ Deref(proc.content).resp.ActionItems[2].DurationMinutes = -5
    /\ Deref(proc.content).resp.ActionItems[3].DurationMinutes = 45
    /\ Deref(proc.result).ActionItems[1].DurationMinutes = 30
    /\ Deref(proc.result).ActionItems[2].DurationMinutes = 30
    /\ Deref(proc.result).ActionItems[3].DurationMinutes = 45

----------------------------------------------------------------------------
(* Claim about reading the notification log (SpecLog) *)

LogLimits == {-1, 0, 1, 2, 99, 100, 101, 150}

\* C24: GetRecentNotifications(limit) is the min(limit, len) latest appended
\* entries, the newest first and each next one the one appended just before;
\* with limit <= 0 or limit > len it is the whole log, newest first.
C24_RecentNotifications ==
    \A limit \in LogLimits :
        LET len == Len(notifications)
            n == IF limit <= 0 \/ limit > len THEN len ELSE Min(limit, len)
            got == GetRecentNotifications(limit) IN
        /\ Len(got) = n
        /\ \A i \in 1..n : got[i] = appends[Len(appends) - i + 1]
        /\ (limit <= 0 \/ limit > len) => got = Reverse(notifications)

\* After 101 appends: the two latest entries for limit 2, the 100 retained
\* ones for a limit above that.
C24_Witness ==
    /\ Len(appends) = 101
    /\ GetRecentNotifications(2) = <<appends[101], appends[100]>>
    /\ Len(GetRecentNotifications(150)) = 100
    /\ GetRecentNotifications(150)[100] = appends[2]

----------------------------------------------------------------------------
(* Claim about the listener statuses and the snapshots (SpecSnap) *)

\* A status as a reader sees it: LastMessage followed to the time it points to.
Seen(status) ==
    [status EXCEPT !.LastMessage = IF IsNil(@) THEN Nil ELSE Ptr(TimeAt(@))]

\* The Store's statuses and stats as a reader sees them.
StoreView ==
    [ls |-> [n \in DOMAIN listeners |-> Seen(listeners[n])], st |-> stats]

\* What the caller holds, as the caller sees it.
SnapView ==
    [ls |-> IF IsNil(snap.ls) THEN Nil
            ELSE Ptr([n \in DOMAIN Deref(snap.ls) |-> Seen(Deref(snap.ls)[n])]),
     st |-> snap.st]

\* UpdateListenerStatus: no entry is ever removed or changes Name or Source, a
\* new entry starts with no messages, and a step that changes Connected
\* leaves MessageCount and LastMessage as they are.
C25_UpdateInPlace ==
    [][/\ \A n \in DOMAIN listeners :
            /\ n \in DOMAIN listeners'
            /\ listeners'[n].Name = listeners[n].Name
            /\ listeners'[n].Source = listeners[n].Source
            /\ listeners'[n].Connected # listeners[n].Connected =>
                    /\ listeners'[n].MessageCount = listeners[n].MessageCount
                    /\ listeners'[n].LastMessage = listeners[n].LastMessage
       /\ \A n \in DOMAIN listeners' \ DOMAIN listeners :
            /\ DOMAIN listeners' = DOMAIN listeners \cup {n}
            /\ listeners'[n].Name = n
            /\ listeners'[n].MessageCount = 0
            /\ IsNil(listeners'[n].LastMessage)]_vars

\* An update of the Store leaves what the caller already holds as it was.
C25_UpdatesLeaveSnapshots ==
    [][(listeners' # listeners \/ stats' # stats) => SnapView' = SnapView]_vars

\* A step of the caller, taking a snapshot or writing to one it holds, leaves
\* the Store's statuses and stats as they were.
C25_CallerLeavesStore ==
    [][(snap' # snap \/ heap' # heap) => StoreView' = StoreView]_vars

\* C25: UpdateListenerStatus creates an entry only for a new name and
\* otherwise changes Connected alone, entries are never deleted, and
\* GetListenerStatuses and GetStats return copies: writing to a snapshot
\* (the BySource map included) never changes the Store, and an update of the
\* Store never changes a snapshot already returned.
C25_StatusesAndSnapshots ==
    /\ C25_UpdateInPlace
    /\ C25_UpdatesLeaveSnapshots
    /\ C25_CallerLeavesStore

----------------------------------------------------------------------------
(* Claims about failures inside handleMessage (SpecItems) *)

\* handleMessage holds a classification and has action item number idx + 1 next.
AtItem == proc.pc = "items" /\ proc.idx < Len(Deref(proc.result).ActionItems)

\* All action items have been gone through.
ItemsDone == proc.pc = "items" /\ proc.idx = Len(Deref(proc.result).ActionItems)

\* Both outcomes of every call are possible wherever handleMessage is, and
\* once the items are done the insert is.
FailureIsPossible ==
    /\ proc.pc = "urgent" => ENABLED ProcUrgent(FALSE) /\ ENABLED ProcUrgent(TRUE)
    /\ AtItem => ENABLED ProcItemNotify(FALSE) /\ ENABLED ProcItemNotify(TRUE)
    /\ proc.pc = "calendar" =>
            ENABLED ProcItemCalendar(FALSE) /\ ENABLED ProcItemCalendar(TRUE)
    /\ ItemsDone => ENABLED ProcRecord

\* Where handleMessage goes from each of its calls, whether or not it failed.
NextStepWhateverTheOutcome ==
    /\ proc.pc = "urgent" =>
            /\ proc'.pc = "items" /\ proc'.idx = 0
            /\ proc'.msg = proc.msg /\ proc'.result = proc.result
    /\ AtItem =>
            /\ proc'.msg = proc.msg /\ proc'.result = proc.result
            /\ IF calCfg THEN proc'.pc = "calendar" /\ proc'.idx = proc.idx
                         ELSE proc'.pc = "items" /\ proc'.idx = proc.idx + 1
    /\ proc.pc = "calendar" =>
            /\ proc'.pc = "items" /\ proc'.idx = proc.idx + 1
            /\ proc'.msg = proc.msg /\ proc'.result = proc.result
    /\ ItemsDone =>
            /\ Len(inserts') = Len(inserts) + 1
            /\ inserts'[Len(inserts')].Message = proc.msg
            /\ inserts'[Len(inserts')].Classification = proc.result

\* C26: no failure inside handleMessage stops it.  After the urgent
\* notification, failed or not, come the action items from the first one;
\* after the notification of an item, failed or not, comes its calendar
\* creation when a creator is configured and the next item otherwise; after a
\* calendar creation, failed or not, comes the next item; after the last item
\* the record is inserted.  So every inserted record with a classification
\* has had all its calls made, whatever failed.
C26_FailuresAreNotFatal ==
    /\ [](FailureIsPossible)
    /\ [][proc' # proc => NextStepWhateverTheOutcome]_vars
    /\ [](\A i \in 1..Len(inserts) :
            ~IsNil(inserts[i].Classification) =>
                LET id == Deref(inserts[i].Message).ID
                    n == Len(Deref(inserts[i].Classification).ActionItems) IN
                /\ Cardinality(UrgentCalls(id)) =
                        (IF IsUrgentRecord(inserts[i]) THEN 1 ELSE 0)
                /\ Cardinality(CallsFor(id, {"notify"}) \ UrgentCalls(id)) = n
                /\ Cardinality(CallsFor(id, {"calendar"})) = (IF calCfg THEN n ELSE 0))

\* An urgent Event with three action items and a calendar creator: all seven
\* calls were made, all failed, and the record is in the Store.
C26_Witness ==
    /\ calCfg
    /\ Len(inserts) = 1
    /\ IsUrgentRecord(inserts[1])
    /\ Len(Deref(inserts[1].Classification).ActionItems) = 3
    /\ Cardinality(CallsFor(1, {"notify", "calendar"})) = 7
    /\ \A j \in CallsFor(1, {"notify", "calendar"}) : ~hist.calls[j].ok
    /\ IsNil(inserts[1].NotifiedAt)
    /\ inserts[1].EventsCreated = 0

\* The log entries appended for Event id, in the order they were appended.
LogOf(id) ==
    LET Is(n) == Deref(n.Message).ID = id IN SelectSeq(appends, Is)

\* The Notifier calls made for Event id that succeeded.
SentFor(id) == {j \in CallsFor(id, {"notify"}) : hist.calls[j].ok}

\* C27: the NotifiedAt of a stored record is null exactly when no notification
\* for its Event succeeded, and otherwise the send time of the first one that
\* did, urgent notification first and action items in order; once set during
\* the handling of an Event it is not changed by a later notification.
C27_NotifiedAtIsFirstSuccess ==
    /\ [](\A i \in 1..Len(inserts) :
            LET r == inserts[i]
                id == Deref(r.Message).ID IN
            /\ IsNil(r.NotifiedAt) <=> SentFor(id) = {}
            /\ Len(LogOf(id)) = Cardinality(SentFor(id))
            /\ ~IsNil(r.NotifiedAt) =>
                    /\ Deref(r.NotifiedAt) = LogOf(id)[1].SentAt
                    /\ \A k \in 2..Len(LogOf(id)) :
                            LogOf(id)[k].SentAt >= Deref(r.NotifiedAt))
    /\ [][(~IsNil(proc.notifiedAt) /\ proc'.msg = proc.msg /\ ~IsNil(proc.msg)) =>
            proc'.notifiedAt = proc.notifiedAt]_vars

\* The urgent notification and the one of the first action item failed, those
\* of the second and third succeeded: NotifiedAt is the time of the second's.
C27_Witness ==
    /\ Len(inserts) = 1
    /\ IsUrgentRecord(inserts[1])
    /\ Len(Deref(inserts[1].Classification).ActionItems) = 3
    /\ Cardinality(CallsFor(1, {"notify"})) = 4
    /\ Cardinality(SentFor(1)) = 2
    /\ Len(LogOf(1)) = 2
    /\ LogOf(1)[1].Reason = "action_item"
    /\ inserts[1].NotifiedAt = Ptr(LogOf(1)[1].SentAt)
    /\ LogOf(1)[2].SentAt > LogOf(1)[1].SentAt

----------------------------------------------------------------------------
(* Claims about GetActionItems and GetRecentMessagesBySource (SpecActions) *)

ActionLimits == (0 - 1)..5

\* The records the ring retains, newest first.
Retained == Reverse(LastN(inserts, Min(Len(inserts), capacity)))

\* The action items of a record in classifier order, each with the record's
\* Event; none for a record without classification.
Paired(pm) ==
    IF IsNil(pm.Classification) THEN <<>>
    ELSE [j \in 1..Len(Deref(pm.Classification).ActionItems) |->
            [Item |-> Deref(pm.Classification).ActionItems[j], SourceMsg |-> pm.Message]]

RECURSIVE Flatten(_)
Flatten(recs) == IF recs = <<>> THEN <<>> ELSE Paired(Head(recs)) \o Flatten(Tail(recs))

\* C28: for limit > 0, GetActionItems(limit) is the first min(limit, T)
\* elements of the action items of the retained records, newest record first,
\* records without classification skipped, the items of a record in
\* classifier order and each with the Event of its record; T is the number of
\* action items in the retained records.
C28_ActionItemsPrefix ==
    \A limit \in ActionLimits :
        limit > 0 =>
            LET all == Flatten(Retained)
                got == GetActionItems(limit) IN
            /\ Len(got) = Min(limit, Len(all))
            /\ \A k \in 1..Len(got) :
                    /\ got[k].Item = all[k].Item
                    /\ got[k].SourceMsg = all[k].SourceMsg

\* A ring of two slots after three inserts of records with two, one and two
\* action items: the oldest is gone, a limit of 5 gives the three items of the
\* two retained records, a limit of 1 cuts inside the newest record.
C28_Witness ==
    /\ capacity = 2 /\ Len(inserts) = 3
    /\ ~IsNil(inserts[1].Classification)
    /\ Len(Deref(inserts[1].Classification).ActionItems) = 2
    /\ ~IsNil(inserts[2].Classification)
    /\ Len(Deref(inserts[2].Classification).ActionItems) = 1
    /\ ~IsNil(inserts[3].Classification)
    /\ Len(Deref(inserts[3].Classification).ActionItems) = 2
    /\ Len(GetActionItems(5)) = 3
    /\ GetActionItems(5)[3].SourceMsg = inserts[2].Message
    /\ Len(GetActionItems(1)) = 1
    /\ GetActionItems(1)[1].SourceMsg = inserts[3].Message

----------------------------------------------------------------------------
(* Claim about the EventCreated flag (SpecItems) *)

\* The entries of a result that come from record pm, in the order returned.
EntriesOf(got, pm) ==
    LET Is(e) == e.SourceMsg = pm.Message IN SelectSeq(got, Is)

\* C29: in a result of GetActionItems the entry for the j-th action item
\* (from 0) of a record is flagged EventCreated exactly when j is below the
\* record's EventsCreated, whichever calendar creations it was that
\* succeeded; the flagged entries of a record are min(EventsCreated, entries
\* returned for it).
C29_EventCreatedByPosition ==
    \A limit \in ActionLimits :
        \A i \in 1..Len(inserts) :
            LET es == EntriesOf(GetActionItems(limit), inserts[i]) IN
            /\ \A p \in 1..Len(es) :
                    /\ es[p].Item = Deref(inserts[i].Classification).ActionItems[p]
                    /\ es[p].EventCreated <=> (p - 1 < inserts[i].EventsCreated)
            /\ Cardinality({p \in 1..Len(es) : es[p].EventCreated}) =
                    Min(inserts[i].EventsCreated, Len(es))

\* Of three action items only the calendar creation of the second succeeded:
\* the record counts one event, and it is the first entry that is flagged.
C29_Witness ==
    /\ calCfg
    /\ Len(inserts) = 1
    /\ inserts[1].EventsCreated = 1
    /\ \E j \in CallsFor(1, {"calendar"}) : hist.calls[j] = Called("calendar", 1, 1, FALSE)
    /\ \E j \in CallsFor(1, {"calendar"}) : hist.calls[j] = Called("calendar", 1, 2, TRUE)
    /\ \E j \in CallsFor(1, {"calendar"}) : hist.calls[j] = Called("calendar", 1, 3, FALSE)
    /\ Len(GetActionItems(5)) = 3
    /\ GetActionItems(5)[1].EventCreated
    /\ ~GetActionItems(5)[2].EventCreated
    /\ ~GetActionItems(5)[3].EventCreated

----------------------------------------------------------------------------
(* Claim about GetRecentMessagesBySource (SpecActions) *)

\* The retained records whose Event has origin s, newest first.
RetainedOf(s) ==
    LET Is(pm) == ~IsNil(pm.Message) /\ Deref(pm.Message).Source = s IN
    SelectSeq(Retained, Is)

\* C30: GetRecentMessagesBySource(s, limit) is, newest first, the
\* min(limit, m) latest retained records whose Event has origin s, all m of
\* them for limit <= 0; records of other origins and records without Event
\* are not in it; the same after the ring has wrapped.
C30_RecentBySource ==
    \A s \in Sources, limit \in ActionLimits :
        LET of == RetainedOf(s)
            n == IF limit <= 0 THEN Len(of) ELSE Min(limit, Len(of))
            got == GetRecentMessagesBySource(s, limit) IN
        /\ got = SubSeq(of, 1, n)
        /\ \A k \in 1..Len(got) :
                ~IsNil(got[k].Message) /\ Deref(got[k].Message).Source = s

\* A wrapped ring of two slots whose newest record is from gmail and the one
\* before from slack: a limit of 1 for slack walks past the gmail record.
C30_Witness ==
    /\ capacity = 2 /\ Len(inserts) = 3
    /\ inserts[1].Message = Ptr(Msg(1, "slack"))
    /\ inserts[2].Message = Ptr(Msg(2, "slack"))
    /\ inserts[3].Message = Ptr(Msg(3, "gmail"))
    /\ GetRecentMessagesBySource("slack", 1) = <<inserts[2]>>
    /\ GetRecentMessagesBySource("slack", 0) = <<inserts[2]>>
    /\ GetRecentMessagesBySource("gmail", 5) = <<inserts[3]>>
    /\ GetRecentMessagesBySource("telegram", 0) = <<>>

----------------------------------------------------------------------------
(* Claims about cancellation and shutdown *)

\* C31: once the cancellation signal has fired, no listener submits a further
\* Event to the queue: no step taken with the context cancelled adds an Event
\* to what has been sent on messageChan.
C31_NoSendAfterCancel == [][ctx = "done" => hist.sent' = hist.sent]_vars

\* C32: every external call the Processor makes while draining after
\* cancellation (classifier, notifier, calendar creator) is handed the
\* process-wide cancellation signal, which has fired by then.
C32_DrainCallsGetContext ==
    [][(ctx = "done" /\ proc.draining /\ Len(hist.calls') = Len(hist.calls) + 1) =>
            hist.calls'[Len(hist.calls')].ctx = Ptr("done")]_vars

----------------------------------------------------------------------------
(* Claims about the two locks of the Store (SpecLocks) *)

\* C33: no Store operation holds mu and ssemu at the same time:
\* AddProcessedMessage has released mu when it takes ssemu for the broadcast.
\* So a broadcast in progress never keeps a reader from taking mu.RLock, an
\* insert or read in progress never keeps Subscribe or Unsubscribe from taking
\* ssemu when it is free,
\* and whoever holds a lock can always take its next step, up to the release,
\* without waiting for anything: no interleaving deadlocks.
C33_LocksNeverNested ==
    /\ ~panicked
    /\ ~(mu.writer /\ ssemu.writer)
    /\ ssemu.writer => \A r \in DOMAIN rd : rd[r] = "idle" => ENABLED ReaderRLock(r)
    /\ ((mu.writer \/ mu.readers > 0) /\ CanLock(ssemu)) =>
            /\ Len(chans) < MaxSubs => ENABLED Subscribe
            /\ \A ch \in subscribers : ENABLED UnsubscribeDelete(ch)
    /\ mu.writer => ENABLED WriterUnderMu
    /\ ssemu.writer => ENABLED WriterUnderSsemu
    /\ \A r \in DOMAIN rd : rd[r] = "reading" => ENABLED ReaderRUnlock(r)
    /\ (proc.pc = "notifySubscribers") => ENABLED notifySubscribersLock

\* A broadcast is under way for the second insert while a reader is inside a
\* read, one mailbox is subscribed and another has been unsubscribed and closed.
C33_Witness ==
    /\ ssemu.writer
    /\ proc.pc = "range"
    /\ Len(inserts) = 2
    /\ \E r \in DOMAIN rd : rd[r] = "reading"
    /\ subscribers # {}
    /\ \E ch \in DOMAIN chans : chans[ch].closed

\* C34: after the cancellation signal fires, under fair scheduling (every
\* Start returns, every call returns), the Processor eventually returns and
\* main reaches the end of its shutdown sequence, also when a producer was
\* blocked on the full queue at the moment of cancellation.
C34_ShutdownCompletes ==
    (ctx = "done") ~> (proc.pc = "returned" /\ mainPc = "done")

\* Every listener's Start has returned.
AllReturned == \A l \in Configured : lst[l].start = "returned"

\* C35: when the Start of every configured listener has returned while the
\* context is live, main closes the queue and the processor and main come to
\* their end, every Event sent having been recorded; with no listener
\* configured the queue is closed only after the cancellation signal.
C35_EndWithoutSignal ==
    /\ (Configured # {} /\ AllReturned /\ ctx = "live") ~>
            (/\ proc.pc = "returned"
             /\ mainPc = "done"
             /\ \A j \in 1..Len(hist.sent) : InsertsOf(hist.sent[j]) # {})
    /\ []((Configured = {} /\ messageChan.closed) => ctx = "done")

\* What the reads return once every insert made so far is complete.
UpToDate ==
    /\ GetStats = StatsAfter(Len(inserts))
    /\ GetRecentMessages(0) = Reverse(LastN(inserts, Min(capacity, Len(inserts))))

\* C36: the broadcast for an insert happens only after the insert's update of
\* the ring and the stats is complete and mu released: at every send of a
\* token no writer holds mu and the Store reflects the insert that produced the
\* token; and a read, which can only start with no writer holding mu, finds the
\* Store reflecting every insert made so far, so that insert or a later state.
C36_BroadcastAfterInsert ==
    /\ [](~mu.writer => UpToDate)
    /\ [][\A ch \in DOMAIN chans :
            chans'[ch].sent > chans[ch].sent =>
                /\ proc.pc = "range"
                /\ ~mu.writer
                /\ Len(inserts) > 0
                /\ UpToDate
                /\ inserts' = inserts]_vars

\* A subscriber holds the token of the second insert while a reader is inside
\* a read that returns that record.
C36_Witness ==
    /\ Len(inserts) = 2
    /\ \E ch \in subscribers : chans[ch].buf = 1 /\ chans[ch].sent = 2
    /\ \E r \in DOMAIN rd : rd[r] = "reading"
    /\ GetRecentMessages(1) = <<inserts[2]>>
    /\ GetStats.TotalMessages = 2

----------------------------------------------------------------------------
\* C37: between two Events, Stats.NotificationsSent equals the number of
\* entries the Processor has ever appended to the notification log (one per
\* successful Notifier send), also for Events with several successful sends.
C37_SentCountsLogEntries ==
    proc.pc \in {"idle", "returned"} => GetStats.NotificationsSent = Len(appends)

\* C38: GetActionItems(limit) with limit <= 0 returns every action item of
\* every retained record, newest record first, also when a retained record
\* carries more than one action item.
C38_NoLimitReturnsAll ==
    \A limit \in ActionLimits :
        limit <= 0 =>
            LET all == Flatten(Retained)
                got == GetActionItems(limit) IN
            /\ Len(got) = Len(all)
            /\ \A k \in 1..Len(got) :
                    /\ got[k].Item = all[k].Item
                    /\ got[k].SourceMsg = all[k].SourceMsg

----------------------------------------------------------------------------
(* Claim about the SSE handlers (SpecConn) *)

\* The channels of the connections being served: the handler has subscribed
\* and its deferred Unsubscribe has not yet taken the channel out.
OpenConns == {sse[h].ch : h \in {k \in DOMAIN sse : sse[k].pc \in {"loop", "Unsubscribe"}}}

\* The handlers whose Unsubscribe has been carried out.
Unsubscribed == {h \in DOMAIN sse : sse[h].pc = "returned"}

\* C39: after Unsubscribe the channel is out of the subscriber set and closed,
\* so that a second Unsubscribe of it would delete nothing and panic at its
\* close; handleSSE subscribes once and unsubscribes once per connection, so no
\* run of the handlers reaches that panic, and the subscriber set is at all
\* times the set of channels of the connections being served.
C39_UnsubscribeOncePerConnection ==
    /\ ~panicked
    /\ subscribers = OpenConns
    /\ \A h \in Unsubscribed :
        /\ sse[h].ch \notin subscribers
        /\ chans[sse[h].ch].closed
        /\ ENABLED (UnsubscribeCloseChan(sse[h].ch) /\ panicked')

\* One connection has gone, the other is being served and has a token waiting.
C39_Witness ==
    /\ Unsubscribed # {}
    /\ \E h \in DOMAIN sse : sse[h].pc = "loop" /\ chans[sse[h].ch].buf > 0
    /\ Cardinality(subscribers) = 1
    /\ Len(chans) = 2

----------------------------------------------------------------------------
(* Claim about Events handled after cancellation (SpecHonour) *)

\* The Events whose classifier call was handed the cancelled context.
AfterCancel ==
    {hist.calls[j].id : j \in {k \in 1..Len(hist.calls) :
                                /\ hist.calls[k].op = "classify"
                                /\ hist.calls[k].ctx = Ptr("done")}}

\* C40: an Event handled after cancellation is handed the cancelled context:
\* with a classifier that answers a cancelled context by a failure, every such
\* Event gets no Notifier and no calendar call and no log entry, and is stored
\* as a record without classification; so every Event that was buffered at the
\* cancellation is in the Store as a partial record once the processor has
\* returned, and produced no notification.
C40_CancelledEventsArePartial ==
    /\ \A j \in 1..Len(hist.atCancel) :
        /\ \A k \in CallsFor(hist.atCancel[j].ID, {"classify"}) :
                hist.calls[k].ctx = Ptr("done")
        /\ proc.pc = "returned" =>
                /\ hist.atCancel[j].ID \in AfterCancel
                /\ Cardinality(InsertsOf(hist.atCancel[j])) = 1
    /\ \A id \in AfterCancel :
        /\ \A k \in CallsFor(id, {"classify"}) : ~hist.calls[k].ok
        /\ CallsFor(id, {"notify", "calendar"}) = {}
        /\ LogOf(id) = <<>>
        /\ \A i \in 1..Len(inserts) :
                Deref(inserts[i].Message).ID = id =>
                    /\ IsNil(inserts[i].Classification)
                    /\ IsNil(inserts[i].NotifiedAt)
                    /\ inserts[i].EventsCreated = 0

\* Two Events were buffered at the cancellation; the processor has drained
\* them and returned, and the Store holds two partial records.
C40_Witness ==
    /\ proc.pc = "returned"
    /\ proc.draining
    /\ Len(hist.atCancel) = 2
    /\ AfterCancel = {1, 2}
    /\ Len(inserts) = 2
    /\ \A i \in 1..2 : IsNil(inserts[i].Classification)
    /\ appends = <<>>

====
